---- MODULE Spec2Model ----
(***************************************************************************)
(* Admission controllers of the solar data acquisition layer:              *)
(*   - CircuitBreaker            (app/core/circuit_breaker.py)             *)
(*   - InternalRateLimiter       (app/middleware/rate_limit.py)            *)
(*   - SemaphoreManager          (app/middleware/rate_limit.py)            *)
(*   - the provider adapters' fetch_solar_radiation, which composes the    *)
(*     three (app/services/pvgis.py, app/services/copernicus.py)           *)
(*                                                                         *)
(* Time.  The code reads datetime.now() and stores absolute timestamps.    *)
(* Every decision it takes depends only on differences now - t, so the     *)
(* model stores each timestamp t as its age now - t, counted in ticks of   *)
(* 1/TicksPerSecond second, and the action Tick lets time pass.  An age    *)
(* is capped one tick past the horizon the code compares it with (the      *)
(* recovery timeout, the rate-limit window): beyond it the code cannot     *)
(* tell two ages apart.                                                    *)
(*                                                                         *)
(* Scheduling.  The code runs as asyncio tasks on one event loop: a task   *)
(* runs without interruption between two awaits that suspend.  Each action *)
(* below is the code between two suspension points.                        *)
(***************************************************************************)
EXTENDS Integers, Sequences, FiniteSets

\* ------------------------------------------------------------------ bounds

\* Number of concurrent tasks calling the breaker, a rate limiter or a
\* provider adapter.
NTasks == 2

\* Number of concurrent tasks using a semaphore on its own.
NWorkers == 3

\* Ticks per second: the resolution of the model's clock.
TicksPerSecond == 2

\* CircuitBreaker constructor parameters (dataclass fields), scaled down.
FailureThreshold == 2
RecoveryTimeout == 1
HalfOpenMaxCalls == 2

\* Cap on the breaker's cumulative counters: calls that entered
\* CircuitBreaker.call (recorded, rejected or still running).
MaxRequests == 5

Tasks == 1..NTasks

Workers == 1..NWorkers

Max(a, b) == IF a >= b THEN a ELSE b

Min(a, b) == IF a <= b THEN a ELSE b

\* A timestamp that is None.
NoTime == -1

\* ------------------------------------------------------------ CircuitBreaker

CLOSED == "closed"

OPEN == "open"

HALF_OPEN == "half_open"

VARIABLES
    breaker,          \* the CircuitBreaker's fields and its metrics counters
    bpc,              \* per task: where it is in CircuitBreaker.call
    retry_after,      \* per task: retry_after of the CircuitOpenError it got
    admitted_in,      \* per task: the state CircuitBreaker.call found at entry
    streak,           \* history: failures recorded since the last recorded success
    probe_successes,  \* history: successes recorded while HALF_OPEN since it was entered
    reopen_age,       \* history: age of the last failure recorded while HALF_OPEN
    probes_admitted   \* history: calls admitted to the wrapped function since
                      \* HALF_OPEN was entered (0 when not HALF_OPEN)

bvars == <<breaker, bpc, retry_after, admitted_in, streak, probe_successes, reopen_age,
           probes_admitted>>

\* Ages are capped one tick past the recovery timeout.
RecoveryTicks == RecoveryTimeout * TicksPerSecond

BreakerAgeCap == RecoveryTicks + 1

\* State after construction (dataclass defaults).
BreakerInit ==
    [ state               |-> CLOSED,
      failure_count       |-> 0,
      last_failure_time   |-> NoTime,
      half_open_calls     |-> 0,
      total_requests      |-> 0,
      successful_requests |-> 0,
      failed_requests     |-> 0,
      rejected_requests   |-> 0,
      state_changes       |-> 0 ]

\* elapsed > timedelta(seconds=recovery_timeout); True when no failure is recorded.
ShouldAttemptReset(b) ==
    IF b.last_failure_time = NoTime
    THEN TRUE
    ELSE b.last_failure_time > RecoveryTicks

\* _transition_to: a change of state counts in the metrics, a no-op does not.
TransitionTo(b, new_state) ==
    IF b.state # new_state
    THEN [b EXCEPT !.state = new_state, !.state_changes = @ + 1]
    ELSE b

\* Mutant: the failure counter is not reset by a success while CLOSED.
OnSuccess_NoReset(b) ==
    LET m == [b EXCEPT !.total_requests = @ + 1, !.successful_requests = @ + 1]
    IN  IF m.state = HALF_OPEN
        THEN LET h == [m EXCEPT !.half_open_calls = @ + 1]
             IN  IF h.half_open_calls >= HalfOpenMaxCalls
                 THEN [TransitionTo(h, CLOSED) EXCEPT !.failure_count = 0]
                 ELSE h
        ELSE m

\* Mutant: the circuit closes one probe success late (> for >=).
OnSuccess_LateClose(b) ==
    LET m == [b EXCEPT !.total_requests = @ + 1, !.successful_requests = @ + 1]
    IN  IF m.state = HALF_OPEN
        THEN LET h == [m EXCEPT !.half_open_calls = @ + 1]
             IN  IF h.half_open_calls > HalfOpenMaxCalls
                 THEN [TransitionTo(h, CLOSED) EXCEPT !.failure_count = 0]
                 ELSE h
        ELSE IF m.state = CLOSED
             THEN [m EXCEPT !.failure_count = 0]
             ELSE m

\* _on_success
OnSuccess(b) ==
    LET m == [b EXCEPT !.total_requests = @ + 1, !.successful_requests = @ + 1]
    IN  IF m.state = HALF_OPEN
        THEN LET h == [m EXCEPT !.half_open_calls = @ + 1]
             IN  IF h.half_open_calls >= HalfOpenMaxCalls
                 THEN [TransitionTo(h, CLOSED) EXCEPT !.failure_count = 0]
                 ELSE h
        ELSE IF m.state = CLOSED
             THEN [m EXCEPT !.failure_count = 0]
             ELSE m

\* Mutant: the last-failure time is stamped only when the circuit opens from
\* CLOSED, not by a failure recorded while HALF_OPEN.
OnFailure_StaleStamp(b) ==
    LET m == [b EXCEPT !.total_requests = @ + 1,
                       !.failed_requests = @ + 1,
                       !.failure_count = @ + 1,
                       !.last_failure_time =
                           IF b.state = HALF_OPEN THEN @ ELSE 0]
    IN  IF m.state = HALF_OPEN
        THEN TransitionTo(m, OPEN)
        ELSE IF m.failure_count >= FailureThreshold
             THEN TransitionTo(m, OPEN)
             ELSE m

\* _on_failure: last_failure_time = now, i.e. age 0.
OnFailure(b) ==
    LET m == [b EXCEPT !.total_requests = @ + 1,
                       !.failed_requests = @ + 1,
                       !.failure_count = @ + 1,
                       !.last_failure_time = 0]
    IN  IF m.state = HALF_OPEN
        THEN TransitionTo(m, OPEN)
        ELSE IF m.failure_count >= FailureThreshold
             THEN TransitionTo(m, OPEN)
             ELSE m

\* Mutant: retry_after without the floor of 1.
RetryAfter_NoFloor(b) ==
    RecoveryTimeout - (b.last_failure_time \div TicksPerSecond)

\* retry_after of the CircuitOpenError raised by call:
\* max(1, recovery_timeout - int(elapsed.total_seconds())).
RetryAfter(b) ==
    Max(1, RecoveryTimeout - (b.last_failure_time \div TicksPerSecond))

\* Mutant: the probe is admitted without resetting the half-open success count.
Admission_NoProbeReset(b) ==
    IF b.state = OPEN
    THEN IF ShouldAttemptReset(b)
         THEN [admit |-> TRUE, breaker |-> TransitionTo(b, HALF_OPEN)]
         ELSE [admit |-> FALSE,
               breaker |-> [b EXCEPT !.rejected_requests = @ + 1]]
    ELSE [admit |-> TRUE, breaker |-> b]

\* The first locked block of call: whether the wrapped function is invoked,
\* and the breaker after the block.
Admission(b) ==
    IF b.state = OPEN
    THEN IF ShouldAttemptReset(b)
         THEN [admit |-> TRUE,
               breaker |-> [TransitionTo(b, HALF_OPEN) EXCEPT !.half_open_calls = 0]]
         ELSE [admit |-> FALSE,
               breaker |-> [b EXCEPT !.rejected_requests = @ + 1]]
    ELSE [admit |-> TRUE, breaker |-> b]

\* Calls that entered CircuitBreaker.call so far.
BreakerStarted ==
    breaker.total_requests + breaker.rejected_requests
        + Cardinality({t \in Tasks : bpc[t] = "running"})

\* call, up to the await of the wrapped function (or the CircuitOpenError).
BreakerCall(t) ==
    /\ bpc[t] = "idle"
    /\ BreakerStarted < MaxRequests
    /\ LET a == Admission(breaker)
       IN  /\ breaker' = a.breaker
           /\ bpc' = [bpc EXCEPT ![t] = IF a.admit THEN "running" ELSE "rejected"]
           /\ retry_after' = [retry_after EXCEPT ![t] =
                                 IF a.admit THEN 0 ELSE RetryAfter(breaker)]
           /\ admitted_in' = [admitted_in EXCEPT ![t] = breaker.state]
           /\ probe_successes' =
                 IF breaker.state = OPEN /\ a.breaker.state = HALF_OPEN
                 THEN 0 ELSE probe_successes
           /\ reopen_age' = IF a.breaker.state = OPEN THEN reopen_age ELSE NoTime
           /\ probes_admitted' =
                 IF a.admit /\ a.breaker.state = HALF_OPEN
                 THEN (IF breaker.state = OPEN THEN 1 ELSE probes_admitted + 1)
                 ELSE probes_admitted
    /\ UNCHANGED streak

\* call: the wrapped function returned; _on_success under the lock.
BreakerFuncReturn(t) ==
    /\ bpc[t] = "running"
    /\ breaker' = OnSuccess(breaker)
    /\ bpc' = [bpc EXCEPT ![t] = "returned"]
    /\ streak' = 0
    /\ probe_successes' =
          IF breaker.state = HALF_OPEN THEN probe_successes + 1 ELSE probe_successes
    /\ reopen_age' = IF breaker'.state = OPEN THEN reopen_age ELSE NoTime
    /\ probes_admitted' = IF breaker'.state = HALF_OPEN THEN probes_admitted ELSE 0
    /\ UNCHANGED <<retry_after, admitted_in>>

\* call: the wrapped function raised; _on_failure under the lock, then re-raise.
BreakerFuncRaise(t) ==
    /\ bpc[t] = "running"
    /\ breaker' = OnFailure(breaker)
    /\ bpc' = [bpc EXCEPT ![t] = "raised"]
    /\ streak' = streak + 1
    /\ reopen_age' = IF breaker.state = HALF_OPEN THEN 0
                     ELSE IF breaker'.state = OPEN THEN reopen_age ELSE NoTime
    /\ probes_admitted' = IF breaker'.state = HALF_OPEN THEN probes_admitted ELSE 0
    /\ UNCHANGED <<retry_after, admitted_in, probe_successes>>

\* The caller has consumed the outcome of its call and may call again.
BreakerCallerNext(t) ==
    /\ bpc[t] \in {"returned", "raised", "rejected"}
    /\ bpc' = [bpc EXCEPT ![t] = "idle"]
    /\ retry_after' = [retry_after EXCEPT ![t] = 0]
    /\ UNCHANGED <<breaker, admitted_in, streak, probe_successes, reopen_age,
                   probes_admitted>>

\* An age one tick later, capped; None stays None.
Older(age, cap) == IF age = NoTime THEN NoTime ELSE Min(age + 1, cap)

\* The breaker one tick later: now - _last_failure_time has grown.
BreakerOlder(b) == [b EXCEPT !.last_failure_time = Older(@, BreakerAgeCap)]

\* One tick of time passes for the breaker: datetime.now() advances.
BreakerTick ==
    /\ breaker' = BreakerOlder(breaker)
    /\ reopen_age' = Older(reopen_age, BreakerAgeCap)
    /\ UNCHANGED <<bpc, retry_after, admitted_in, streak, probe_successes,
                   probes_admitted>>

BreakerVarsInit ==
    /\ breaker = BreakerInit
    /\ bpc = [t \in Tasks |-> "idle"]
    /\ retry_after = [t \in Tasks |-> 0]
    /\ admitted_in = [t \in Tasks |-> CLOSED]
    /\ streak = 0
    /\ probe_successes = 0
    /\ reopen_age = NoTime
    /\ probes_admitted = 0

\* -------------------------------------------------------- InternalRateLimiter

\* InternalRateLimiter constructor parameters (dataclass fields), scaled down.
MaxCalls == 2

\* window_seconds, counted in ticks.
WindowTicks == 2

\* No task holds the lock.
NoTask == 0

VARIABLES
    limiter,      \* _calls (ages of the recorded grants, in append order), _waiting, _lock
    rpc,          \* per task: where it is in acquire / try_acquire
    sleep_left,   \* per task: ticks left of its asyncio.sleep(wait_seconds)
    saw_oldest    \* history, per task: age of the oldest timestamp it found in a full window

lvars == <<limiter, rpc, sleep_left, saw_oldest>>

\* State after construction (dataclass defaults).
LimiterInit == [calls |-> <<>>, waiting |-> 0, lock |-> NoTask]

\* Mutant: the window keeps a timestamp that is exactly window_seconds old
\* (t >= window_start for t > window_start).
Prune_Inclusive(calls) ==
    SelectSeq(calls, LAMBDA age : age <= WindowTicks)

\* [t for t in self._calls if t > window_start], window_start = now - window:
\* a timestamp stays while its age is below the window.
Prune(calls) ==
    SelectSeq(calls, LAMBDA age : age < WindowTicks)

\* Age of min(self._calls), the oldest timestamp (calls is not empty).
OldestAge(calls) ==
    CHOOSE a \in {calls[i] : i \in 1..Len(calls)} :
        \A i \in 1..Len(calls) : calls[i] <= a

\* Mutant: the wait is cut to whole seconds (sleep(int(wait_seconds))).
WaitTicks_Truncated(calls) ==
    ((WindowTicks - OldestAge(calls)) \div TicksPerSecond) * TicksPerSecond

\* wait_seconds = (oldest_call + window - now).total_seconds(), in ticks.
WaitTicks(calls) == WindowTicks - OldestAge(calls)

\* The lock after the explicit self._lock.release() that precedes the sleep.
ReleasedForSleep(holder) == NoTask

\* acquire from its entry to its first exit from the event loop's point of view:
\* the grant under the limit, or the start of the sleep.  With wait_seconds <= 0
\* the code falls through to the re-check and grants at once.
AcquireEnter(l, t) ==
    LET kept == Prune(l.calls)
    IN  IF Len(kept) < MaxCalls
        THEN [granted |-> TRUE, sleep |-> 0, oldest |-> NoTime,
              limiter |-> [l EXCEPT !.calls = Append(kept, 0), !.lock = NoTask]]
        ELSE IF WaitTicks(kept) > 0
        THEN [granted |-> FALSE, sleep |-> WaitTicks(kept), oldest |-> OldestAge(kept),
              limiter |-> [l EXCEPT !.calls = kept,
                                    !.waiting = @ + 1,
                                    !.lock = ReleasedForSleep(t)]]
        ELSE [granted |-> TRUE, sleep |-> 0, oldest |-> OldestAge(kept),
              limiter |-> [l EXCEPT !.calls = Append(Prune(kept), 0), !.lock = NoTask]]

\* acquire after the sleep: the lock is taken again, _waiting -= 1, then the
\* "re-check": prune and append, whatever the number of timestamps left.
AcquireResume(l) ==
    [l EXCEPT !.waiting = @ - 1,
              !.calls = Append(Prune(l.calls), 0),
              !.lock = NoTask]

\* try_acquire
TryAcquire(l) ==
    LET kept == Prune(l.calls)
    IN  IF Len(kept) < MaxCalls
        THEN [result |-> TRUE, limiter |-> [l EXCEPT !.calls = Append(kept, 0)]]
        ELSE [result |-> FALSE, limiter |-> [l EXCEPT !.calls = kept]]

\* A task calls acquire(): async with self._lock needs the lock free.
LimiterAcquire(t) ==
    /\ rpc[t] = "idle"
    /\ limiter.lock = NoTask
    /\ LET r == AcquireEnter(limiter, t)
       IN  /\ limiter' = r.limiter
           /\ rpc' = [rpc EXCEPT ![t] = IF r.granted THEN "acquired" ELSE "sleeping"]
           /\ sleep_left' = [sleep_left EXCEPT ![t] = r.sleep]
           /\ saw_oldest' = [saw_oldest EXCEPT ![t] = r.oldest]

\* The sleep of a blocked acquire() is over: await self._lock.acquire() in the
\* finally clause needs the lock free; then the grant.
LimiterResume(t) ==
    /\ rpc[t] = "sleeping"
    /\ sleep_left[t] = 0
    /\ limiter.lock = NoTask
    /\ limiter' = AcquireResume(limiter)
    /\ rpc' = [rpc EXCEPT ![t] = "acquired"]
    /\ UNCHANGED <<sleep_left, saw_oldest>>

\* A task calls try_acquire().
LimiterTryAcquire(t) ==
    /\ rpc[t] = "idle"
    /\ limiter.lock = NoTask
    /\ LET r == TryAcquire(limiter)
       IN  /\ limiter' = r.limiter
           /\ rpc' = [rpc EXCEPT ![t] = IF r.result THEN "try_true" ELSE "try_false"]
    /\ UNCHANGED <<sleep_left, saw_oldest>>

\* The caller goes on after acquire() / try_acquire() returned and may call again.
LimiterCallerNext(t) ==
    /\ rpc[t] \in {"acquired", "try_true", "try_false"}
    /\ rpc' = [rpc EXCEPT ![t] = "idle"]
    /\ saw_oldest' = [saw_oldest EXCEPT ![t] = NoTime]
    /\ UNCHANGED <<limiter, sleep_left>>

\* The limiter one tick later: every recorded timestamp is one tick older.
LimiterOlder(l) ==
    [l EXCEPT !.calls = [i \in 1..Len(@) |-> Min(@[i] + 1, WindowTicks)]]

\* One tick of time passes for the limiter; every sleep is one tick shorter.
LimiterTick ==
    /\ limiter' = LimiterOlder(limiter)
    /\ sleep_left' = [t \in DOMAIN sleep_left |-> Max(sleep_left[t] - 1, 0)]
    /\ saw_oldest' = [t \in DOMAIN saw_oldest |-> Older(saw_oldest[t], WindowTicks)]
    /\ UNCHANGED rpc

LimiterVarsInit(T) ==
    /\ limiter = LimiterInit
    /\ rpc = [t \in T |-> "idle"]
    /\ sleep_left = [t \in T |-> 0]
    /\ saw_oldest = [t \in T |-> NoTime]

\* ----------------------------------------------------------- SemaphoreManager

\* SemaphoreManager constructor parameter (dataclass field), scaled down.
MaxConcurrent == 1

\* Cap on the number of waiters cancelled while suspended in acquire().
MaxAbandoned == 2

VARIABLES
    sem,    \* value: permits left in the asyncio.Semaphore; _active, _waiting
    spc     \* per task: where it is between acquire() and release()

svars == <<sem, spc>>

\* State after __post_init__: asyncio.Semaphore(max_concurrent).
SemInit == [value |-> MaxConcurrent, active |-> 0, waiting |-> 0]

\* asyncio.Semaphore.acquire returns without suspending while a permit is left.
SemPermitLeft(s) == s.value > 0

\* acquire, first locked block: _waiting += 1, before awaiting the semaphore.
SemEnqueue(s) == [s EXCEPT !.waiting = @ + 1]

\* acquire, from the permit taken to the return: _waiting -= 1, _active += 1.
SemTake(s) ==
    [s EXCEPT !.value = @ - 1, !.waiting = @ - 1, !.active = @ + 1]

\* Mutant: release hands back two permits (the context manager's exit and an
\* explicit release both run).
SemRelease_Twice(s) ==
    [s EXCEPT !.active = @ - 1, !.value = @ + 2]

\* release: _active -= 1 under the lock, then self._semaphore.release().
SemRelease(s) ==
    [s EXCEPT !.active = @ - 1, !.value = @ + 1]

\* acquire() from its entry to its return or to its suspension in
\* self._semaphore.acquire(): the state after it and whether it returned.
SemAcquire(s) ==
    IF SemPermitLeft(SemEnqueue(s))
    THEN [returned |-> TRUE, sem |-> SemTake(SemEnqueue(s))]
    ELSE [returned |-> FALSE, sem |-> SemEnqueue(s)]

\* A task calls acquire() directly.
SemaphoreAcquire(t) ==
    /\ spc[t] = "idle"
    /\ sem' = SemAcquire(sem).sem
    /\ spc' = [spc EXCEPT ![t] =
                  IF SemAcquire(sem).returned THEN "holding" ELSE "blocked"]

\* A task enters async with: __aenter__ awaits acquire().
SemaphoreEnter(t) ==
    /\ spc[t] = "idle"
    /\ sem' = SemAcquire(sem).sem
    /\ spc' = [spc EXCEPT ![t] =
                  IF SemAcquire(sem).returned THEN "in_with" ELSE "blocked_with"]

\* A suspended acquire() is resumed once a permit is left, and returns.
SemaphoreWake(t) ==
    /\ spc[t] \in {"blocked", "blocked_with"}
    /\ SemPermitLeft(sem)
    /\ sem' = SemTake(sem)
    /\ spc' = [spc EXCEPT ![t] = IF spc[t] = "blocked" THEN "holding" ELSE "in_with"]

\* The holder calls release().
SemaphoreRelease(t) ==
    /\ spc[t] = "holding"
    /\ sem' = SemRelease(sem)
    /\ spc' = [spc EXCEPT ![t] = "released"]

\* The ways the body of async with ends: it returns, it raises, or the task is
\* cancelled at an await of the body.
BodyOutcomes == {"exited", "raised", "cancelled"}

\* Mutant: the permit is handed back only when the body returned (release
\* after the body, not in a scoped exit).
SemExit_OnlyOnReturn(s, outcome) ==
    IF outcome = "exited" THEN SemRelease(s) ELSE s

\* __aexit__(exc_type, exc_val, exc_tb): await self.release(), whatever the
\* exception; nothing in release() suspends, so it runs to its end.
SemExit(s, outcome) == SemRelease(s)

\* The body of async with ends: __aexit__ awaits release() and returns False,
\* so an exception of the body (CancelledError too) propagates.
SemaphoreExit(t) ==
    /\ spc[t] = "in_with"
    /\ \E outcome \in BodyOutcomes :
          /\ sem' = SemExit(sem, outcome)
          /\ spc' = [spc EXCEPT ![t] = outcome]

\* _waiting entries of callers that were cancelled while suspended: nothing
\* takes them back.
SemAbandoned(s, pc) ==
    s.waiting - Cardinality({t \in DOMAIN pc : pc[t] \in {"blocked", "blocked_with"}})

\* acquire() cancelled while suspended in self._semaphore.acquire(): the
\* CancelledError leaves acquire() before _waiting -= 1; no permit was taken.
SemCancelWaiting(s) == s

\* A task suspended in __aenter__ is cancelled: __aexit__ does not run.
SemaphoreCancelWaiting(t) ==
    /\ spc[t] = "blocked_with"
    /\ SemAbandoned(sem, spc) < MaxAbandoned
    /\ sem' = SemCancelWaiting(sem)
    /\ spc' = [spc EXCEPT ![t] = "cancelled_waiting"]

\* The task goes on after its use of the semaphore (or another task takes its
\* place) and may use the semaphore again.
SemaphoreCallerNext(t) ==
    /\ spc[t] \in {"released", "exited", "raised", "cancelled", "cancelled_waiting"}
    /\ spc' = [spc EXCEPT ![t] = "idle"]
    /\ UNCHANGED sem

SemVarsInit(T) ==
    /\ sem = SemInit
    /\ spc = [t \in T |-> "idle"]

\* ------------------------------------------- provider adapter: fetch_solar_radiation
\* PVGISService.fetch_solar_radiation and CopernicusService.fetch_solar_radiation
\* guard their upstream call in the same way, each with the breaker, the rate
\* limiter and the semaphore of its provider: a look at breaker.is_open, then
\* rate_limiter.acquire(), then async with semaphore, then breaker.call(_do_fetch).
\* One such triple is modelled.

VARIABLES
    apc,          \* per task: where it is in fetch_solar_radiation
    upstream_ok   \* whether the provider's upstream call (_do_fetch) succeeds now

avars == <<apc, upstream_ok>>

\* From breaker.call(self._do_fetch, ...), inside async with semaphore: the call
\* is admitted and awaits _do_fetch, or CircuitOpenError leaves the with block,
\* which releases the permit.
FetchFromBreakerCall(b, l, s) ==
    LET a == Admission(b)
    IN  IF a.admit
        THEN [pc |-> "running", breaker |-> a.breaker, limiter |-> l, sem |-> s,
              sleep |-> 0, retry |-> 0]
        ELSE [pc |-> "circuit_open", breaker |-> a.breaker, limiter |-> l,
              sem |-> SemRelease(s), sleep |-> 0, retry |-> RetryAfter(b)]

\* From async with semaphore.
FetchFromSemaphore(b, l, s) ==
    IF SemAcquire(s).returned
    THEN FetchFromBreakerCall(b, l, SemAcquire(s).sem)
    ELSE [pc |-> "sem_blocked", breaker |-> b, limiter |-> l, sem |-> SemAcquire(s).sem,
          sleep |-> 0, retry |-> 0]

\* From await rate_limiter.acquire().
FetchFromLimiter(b, l, s, t) ==
    LET r == AcquireEnter(l, t)
    IN  IF r.granted
        THEN FetchFromSemaphore(b, r.limiter, s)
        ELSE [pc |-> "sleeping", breaker |-> b, limiter |-> r.limiter, sem |-> s,
              sleep |-> r.sleep, retry |-> 0]

\* fetch_solar_radiation from its entry to its first suspension or its end:
\* if breaker.is_open, CircuitOpenError(name, breaker.recovery_timeout) is raised
\* before anything else.
FetchSolarRadiation(b, l, s, t) ==
    IF b.state = OPEN
    THEN [pc |-> "circuit_open", breaker |-> b, limiter |-> l, sem |-> s,
          sleep |-> 0, retry |-> RecoveryTimeout]
    ELSE FetchFromLimiter(b, l, s, t)

\* Calls of the adapter that reached, or may still reach, breaker.call.
AdapterStarted ==
    breaker.total_requests + breaker.rejected_requests
        + Cardinality({t \in DOMAIN apc : apc[t] \in {"sleeping", "sem_blocked", "running"}})

\* The effect of a run of the adapter's code on the state.
AdapterRuns(t, r) ==
    /\ apc' = [apc EXCEPT ![t] = r.pc]
    /\ breaker' = r.breaker
    /\ limiter' = r.limiter
    /\ sem' = r.sem
    /\ sleep_left' = [sleep_left EXCEPT ![t] = r.sleep]
    /\ retry_after' = [retry_after EXCEPT ![t] = r.retry]

\* A request arrives: a task calls fetch_solar_radiation.
AdapterFetch(t) ==
    /\ apc[t] = "idle"
    /\ limiter.lock = NoTask
    /\ LET r == FetchSolarRadiation(breaker, limiter, sem, t)
       IN  /\ r.pc # "circuit_open" => AdapterStarted < MaxRequests
           /\ AdapterRuns(t, r)
    /\ UNCHANGED upstream_ok

\* The sleep inside rate_limiter.acquire() is over: the grant, then on to the
\* semaphore.
AdapterLimiterResume(t) ==
    /\ apc[t] = "sleeping"
    /\ sleep_left[t] = 0
    /\ limiter.lock = NoTask
    /\ AdapterRuns(t, FetchFromSemaphore(breaker, AcquireResume(limiter), sem))
    /\ UNCHANGED upstream_ok

\* A permit is left for a task suspended in async with semaphore: on to the call.
AdapterSemWake(t) ==
    /\ apc[t] = "sem_blocked"
    /\ SemPermitLeft(sem)
    /\ AdapterRuns(t, FetchFromBreakerCall(breaker, limiter, SemTake(sem)))
    /\ UNCHANGED upstream_ok

\* _do_fetch returned: _on_success, the permit is released, the data returned.
AdapterFuncReturn(t) ==
    /\ apc[t] = "running"
    /\ upstream_ok
    /\ AdapterRuns(t, [pc |-> "returned", breaker |-> OnSuccess(breaker),
                       limiter |-> limiter, sem |-> SemRelease(sem),
                       sleep |-> 0, retry |-> 0])
    /\ UNCHANGED upstream_ok

\* _do_fetch raised: _on_failure, the permit is released, the error re-raised.
AdapterFuncRaise(t) ==
    /\ apc[t] = "running"
    /\ ~upstream_ok
    /\ AdapterRuns(t, [pc |-> "raised", breaker |-> OnFailure(breaker),
                       limiter |-> limiter, sem |-> SemRelease(sem),
                       sleep |-> 0, retry |-> 0])
    /\ UNCHANGED upstream_ok

\* The caller has consumed the outcome; the task may bring the next request.
AdapterCallerNext(t) ==
    /\ apc[t] \in {"returned", "raised", "circuit_open"}
    /\ apc' = [apc EXCEPT ![t] = "idle"]
    /\ retry_after' = [retry_after EXCEPT ![t] = 0]
    /\ UNCHANGED <<breaker, limiter, sem, sleep_left, upstream_ok>>

\* One tick of time passes for the provider's breaker and limiter.
AdapterTick ==
    /\ breaker' = BreakerOlder(breaker)
    /\ limiter' = LimiterOlder(limiter)
    /\ sleep_left' = [t \in DOMAIN sleep_left |-> Max(sleep_left[t] - 1, 0)]
    /\ UNCHANGED <<apc, sem, retry_after, upstream_ok>>

\* The provider comes back: from now on its upstream call succeeds.
UpstreamRecovers ==
    /\ ~upstream_ok
    /\ upstream_ok' = TRUE
    /\ UNCHANGED <<apc, breaker, limiter, sem, sleep_left, retry_after>>

AdapterVarsInit(T) ==
    /\ apc = [t \in T |-> "idle"]
    /\ upstream_ok = FALSE

\* ------------------------------------------------ SolarDataService: racing fetch
\* SolarDataService._fetch_parallel races one task per provider
\* (_safe_fetch_cams, _safe_fetch_pvgis) under asyncio.wait(FIRST_COMPLETED,
\* timeout=35.0).  What a provider's adapter does inside its task is one of
\* the outcomes below, at a time of its own.

\* The timeout of one asyncio.wait call (35.0 s), in ticks.
WaitTimeout == 2

Providers == {"cams", "pvgis"}

\* What a result carries: its source label and its data tier.
CamsReal == [source |-> "CAMS Solar Radiation Timeseries (Real Data)", data_tier |-> "engineering"]
CamsMock == [source |-> "CAMS Solar Radiation Timeseries", data_tier |-> "engineering"]
PvgisData == [source |-> "PVGIS (PVGIS-SARAH2)", data_tier |-> "engineering"]

\* A raised exception (CircuitOpenError or any other) as an adapter's outcome.
Raised == [source |-> "exception", data_tier |-> "none"]

\* Python's None.
None == [source |-> "None", data_tier |-> "none"]

\* The outcomes of a provider adapter's fetch_solar_radiation.
AdapterOutcomes(p) ==
    IF p = "cams" THEN {CamsReal, CamsMock, Raised} ELSE {PvgisData, Raised}

\* "Real Data" in cams_data.source
HasRealData(source) == source = "CAMS Solar Radiation Timeseries (Real Data)"

\* Mutant: the CAMS result is passed on whatever its source label.
SafeFetchCams_AcceptsMock(outcome) ==
    IF outcome = Raised THEN None ELSE outcome

\* _safe_fetch_cams: the converted data if it is marked real, None for mock
\* data and for any exception.
SafeFetchCams(outcome) ==
    IF outcome = Raised THEN None
    ELSE IF HasRealData(outcome.source) THEN outcome
    ELSE None

\* _safe_fetch_pvgis: the converted data, None for any exception.
SafeFetchPvgis(outcome) ==
    IF outcome = Raised THEN None ELSE outcome

\* _generate_mock_data
GenerateMockData == [source |-> "Mock Data (fallback)", data_tier |-> "estimated"]

VARIABLES
    race,       \* _fetch_parallel: phase, elapsed (ticks in the current wait),
                \* total (ticks since the tasks were created), result
    ptask,      \* per provider task: state, the outcome of its adapter call
                \* (history) and the value the task returned
    pending,    \* the local variable pending
    completed   \* history: the provider tasks in the order they completed

rvars == <<race, ptask, pending, completed>>

\* Ticks since the start of the race are counted up to here.
RaceAgeCap == 2 * WaitTimeout + 1

NoTaskYet == [state |-> "none", outcome |-> None, value |-> None]

RaceInit == [phase |-> "idle", elapsed |-> 0, total |-> 0, result |-> None]

\* The orders in which `for task in done` can visit a set of tasks.
Orders(S) ==
    {o \in [1..Cardinality(S) -> S] : \A i, j \in DOMAIN o : i # j => o[i] # o[j]}

\* The tasks of pend that are done when asyncio.wait returns.
WaitDone(pend, tasks) == {p \in pend : tasks[p].state = "done"}

\* Mutant: the wait has no timeout.
TimedOut_Never(r) == FALSE

\* The timeout of the current asyncio.wait call has expired.
TimedOut(r) == r.elapsed >= WaitTimeout

\* asyncio.wait returns: a task of pending is done, or the timeout expired.
WaitReturns(r, pend, tasks) ==
    WaitDone(pend, tasks) # {} \/ TimedOut(r)

\* for task in done: the first visited task whose result is not None, or None.
FirstValid(order, tasks) ==
    LET hits == {i \in DOMAIN order : tasks[order[i]].value # None}
    IN  IF hits = {} THEN None
        ELSE tasks[order[CHOOSE i \in hits : \A j \in hits : i <= j]].value

\* for t in pending: t.cancel()
CancelAll(pend, tasks) ==
    [p \in DOMAIN tasks |->
        IF p \in pend THEN [tasks[p] EXCEPT !.state = "cancelled"] ELSE tasks[p]]

\* Mutant: the race is given up as soon as a task completed without a valid
\* result.
KeepsWaiting_GiveUp(rest) == FALSE

\* while pending: the loop waits again while a task is left.
KeepsWaiting(rest) == rest # {}

\* _fetch_parallel from the return of asyncio.wait to the next wait or to its
\* return: the done tasks are visited in the given order; the first valid
\* result is returned and the tasks still pending are cancelled; with no done
\* task (timeout) the pending ones are cancelled and the loop is left; when
\* the loop is over without a result, _generate_mock_data.
FetchParallelResume(r, pend, tasks, order) ==
    LET done == WaitDone(pend, tasks)
        rest == pend \ done
        hit == FirstValid(order, tasks)
    IN  IF hit # None
        THEN [race |-> [r EXCEPT !.phase = "returned", !.result = hit],
              ptask |-> CancelAll(rest, tasks), pending |-> rest]
        ELSE IF done = {} /\ rest # {}
        THEN [race |-> [r EXCEPT !.phase = "returned", !.result = GenerateMockData],
              ptask |-> CancelAll(rest, tasks), pending |-> rest]
        ELSE IF KeepsWaiting(rest)
        THEN [race |-> [r EXCEPT !.elapsed = 0], ptask |-> tasks, pending |-> rest]
        ELSE [race |-> [r EXCEPT !.phase = "returned", !.result = GenerateMockData],
              ptask |-> tasks, pending |-> rest]

\* fetch_solar_radiation is called: _fetch_parallel creates the two tasks and
\* awaits asyncio.wait.
FetchParallelStart ==
    /\ race.phase = "idle"
    /\ race' = [RaceInit EXCEPT !.phase = "waiting"]
    /\ ptask' = [p \in Providers |-> [NoTaskYet EXCEPT !.state = "running"]]
    /\ pending' = Providers
    /\ completed' = <<>>

\* A provider task completes: its _safe_fetch_* returns.
TaskCompletes(p) ==
    /\ ptask[p].state = "running"
    /\ \E outcome \in AdapterOutcomes(p) :
          ptask' = [ptask EXCEPT ![p] =
                       [state |-> "done",
                        outcome |-> outcome,
                        value |-> IF p = "cams" THEN SafeFetchCams(outcome)
                                  ELSE SafeFetchPvgis(outcome)]]
    /\ completed' = Append(completed, p)
    /\ UNCHANGED <<race, pending>>

\* asyncio.wait has returned and _fetch_parallel runs on; done is a set, so
\* the order of the visit is any.
FetchParallelWake ==
    /\ race.phase = "waiting"
    /\ WaitReturns(race, pending, ptask)
    /\ \E order \in Orders(WaitDone(pending, ptask)) :
          LET r == FetchParallelResume(race, pending, ptask, order)
          IN  /\ race' = r.race
              /\ ptask' = r.ptask
              /\ pending' = r.pending
    /\ UNCHANGED completed

\* One tick of time passes while _fetch_parallel is suspended in asyncio.wait;
\* no time passes while it is ready to run.
RaceTick ==
    /\ race.phase = "waiting"
    /\ ~WaitReturns(race, pending, ptask)
    /\ race' = [race EXCEPT !.elapsed = Min(@ + 1, WaitTimeout),
                            !.total = Min(@ + 1, RaceAgeCap)]
    /\ UNCHANGED <<ptask, pending, completed>>

\* The caller has the result; the next fetch may start.
FetchCallerNext ==
    /\ race.phase = "returned"
    /\ race' = RaceInit
    /\ ptask' = [p \in Providers |-> NoTaskYet]
    /\ pending' = {}
    /\ completed' = <<>>

RaceVarsInit ==
    /\ race = RaceInit
    /\ ptask = [p \in Providers |-> NoTaskYet]
    /\ pending = {}
    /\ completed = <<>>

\* ------------------------------------------- cache manager: get_or_create_model
\* get_or_create_model looks a coordinate up in the hot tier (Redis, exact
\* match on the rounded coordinates), then in the warm store (PostgreSQL,
\* proximity search), then fetches from the providers and writes both tiers.
\* Coordinates lie on a line, in units of half a hot-tier grid cell.

\* Number of coordinates requests are made for: 0 .. NCoords - 1.
NCoords == 3

\* settings.CACHE_RADIUS_KM, in coordinate units.
RadiusUnits == 2

\* The time to live of a hot entry (ttl_days * 86400 s) and of a warm row
\* (settings.DB_CACHE_TTL_DAYS), both 30 days, in cache ticks.
TtlTicks == 2

Coords == 0..(NCoords - 1)

\* cache._make_cache_key(lat, lon, precision=2, prefix="model"): the grid cell
\* of the rounded coordinates.
MakeCacheKey(c) == c \div 2

HotKeys == {MakeCacheKey(c) : c \in Coords}

\* Distance between two coordinates (ST_Distance / the bounding-box offsets).
Distance(a, b) == IF a >= b THEN a - b ELSE b - a

\* The radiation data a racing fetch can return.
FetchResults == {CamsReal, PvgisData, GenerateMockData}

\* generate_interpolation_model(solar_data, ...).to_dict(): the model of a
\* coordinate, carrying the tier of the data it was built from.
GenerateInterpolationModel(c, data) == [latitude |-> c, data_tier |-> data.data_tier]

\* No model (None, a missing key, no row).
NoModel == [latitude |-> -1, data_tier |-> "none"]

\* A hot-tier key without a value, and a coordinate without a warm row.
NoEntry == [model |-> NoModel, age |-> 0]

VARIABLES
    stores,   \* hot: key -> entry; warm: coordinate -> row (model, age since
              \* created_at); hot_up, warm_up: whether the back end answers;
              \* providers_up: whether a provider can answer
    req,      \* per task: the running call of get_or_create_model
    prev      \* history, per task: its previous call

cvars == <<stores, req, prev>>

StoresInit ==
    [hot |-> [k \in HotKeys |-> NoEntry], warm |-> [c \in Coords |-> NoEntry],
     hot_up |-> TRUE, warm_up |-> TRUE, providers_up |-> TRUE]

\* Mutant: a read of the hot tier that fails is not taken for a miss.
GetCachedModel_IgnoresOutage(st, c) ==
    LET e == st.hot[MakeCacheKey(c)]
    IN  IF e # NoEntry /\ e.age < TtlTicks THEN e.model ELSE NoModel

\* cache.get + get_cached_model: the cached model, or None when the client is
\* not available, the key is missing or its time to live is over.
GetCachedModel(st, c) ==
    LET e == st.hot[MakeCacheKey(c)]
    IN  IF st.hot_up /\ e # NoEntry /\ e.age < TtlTicks THEN e.model ELSE NoModel

\* Mutant: the value is never written.
SetCachedModel_Skip(st, c, model) == st

\* set_cached_model + cache.setex: the value and a fresh time to live under the
\* key; nothing when the client is not available.
SetCachedModel(st, c, model) ==
    IF st.hot_up
    THEN [st EXCEPT !.hot[MakeCacheKey(c)] = [model |-> model, age |-> 0]]
    ELSE st

\* The rows find_nearby can return for c: within the radius and created less
\* than the time to live ago.
Candidates(st, c) ==
    {d \in Coords : /\ st.warm[d] # NoEntry
                    /\ Distance(c, d) <= RadiusUnits
                    /\ st.warm[d].age < TtlTicks}

\* Mutant: only a row of the exact coordinate is found.
FindNearby_ExactOnly(st, c) ==
    IF st.warm_up /\ c \in Candidates(st, c) THEN {c} ELSE {}

\* find_nearby: the coordinates of the rows that may be returned, the nearest
\* candidates (ORDER BY distance_km LIMIT 1); none when the query fails.
FindNearby(st, c) ==
    IF st.warm_up
    THEN {d \in Candidates(st, c) :
            \A e \in Candidates(st, c) : Distance(c, d) <= Distance(c, e)}
    ELSE {}

\* save: INSERT ... ON CONFLICT (latitude, longitude) DO UPDATE: a new row, or
\* the row of that coordinate with the new model and its created_at kept;
\* nothing when the statement fails.
Save(st, c, model) ==
    IF ~st.warm_up THEN st
    ELSE IF st.warm[c] = NoEntry
    THEN [st EXCEPT !.warm[c] = [model |-> model, age |-> 0]]
    ELSE [st EXCEPT !.warm[c].model = model]

\* Mutant: the hot tier is never trusted.
AfterHot_AlwaysFetch(cached) == "fetch"

\* `if cached_data: return ...`: a hot hit returns, a miss goes on to the warm
\* store.
AfterHot(cached) == IF cached # NoModel THEN "returned" ELSE "find_nearby"

\* Mutant: a warm hit still goes to the providers.
AfterWarm_AlwaysFetch(found) == "fetch"

\* `if pg_cached: ...`: a warm hit back-fills the hot tier, a miss goes on to
\* the providers.
AfterWarm(found) == IF found # {} THEN "backfill" ELSE "fetch"

\* The callers of get_or_create_model, one call after another each.
Callers == {1}

\* What fetch_solar_radiation can return: with no provider answering, the
\* racing fetch falls back to the synthetic estimate.
FetchOutcomes(st) == IF st.providers_up THEN FetchResults ELSE {GenerateMockData}

\* A caller outside get_or_create_model.
NoCall ==
    [pc |-> "idle", coord |-> -1, model |-> NoModel, log |-> <<>>,
     near |-> {}, failed |-> FALSE, age |-> 0]

\* get_or_create_model(lat, lon) is called.
GetOrCreateModel(t) ==
    /\ req[t].pc = "idle"
    /\ \E c \in Coords :
          req' = [req EXCEPT ![t] = [NoCall EXCEPT !.pc = "get_cached", !.coord = c]]
    /\ UNCHANGED <<stores, prev>>

\* Layer 1: await get_cached_model(lat, lon, radius_km=5.0).
HotLookup(t) ==
    /\ req[t].pc = "get_cached"
    /\ LET cached == GetCachedModel(stores, req[t].coord)
       IN  req' = [req EXCEPT ![t].pc = AfterHot(cached),
                              ![t].model = cached,
                              ![t].log = Append(@, IF cached # NoModel
                                                   THEN "hot_hit" ELSE "hot_miss"),
                              ![t].failed = @ \/ ~stores.hot_up]
    /\ UNCHANGED <<stores, prev>>

\* Layer 2: await cache_repository.find_nearby(lat, lon).
WarmLookup(t) ==
    /\ req[t].pc = "find_nearby"
    /\ LET found == FindNearby(stores, req[t].coord)
       IN  \E d \in IF found = {} THEN {-1} ELSE found :
             req' = [req EXCEPT ![t].pc = AfterWarm(found),
                                ![t].model = IF d = -1 THEN NoModel
                                             ELSE stores.warm[d].model,
                                ![t].log = Append(@, IF found # {}
                                                     THEN "warm_hit" ELSE "warm_miss"),
                                ![t].near = IF stores.warm_up
                                            THEN Candidates(stores, req[t].coord)
                                            ELSE {},
                                ![t].failed = @ \/ ~stores.warm_up]
    /\ UNCHANGED <<stores, prev>>

\* Warm hit: await set_cached_model(lat, lon, model_data), then return.
BackFill(t) ==
    /\ req[t].pc = "backfill"
    /\ stores' = SetCachedModel(stores, req[t].coord, req[t].model)
    /\ req' = [req EXCEPT ![t].pc = "returned",
                           ![t].log = Append(@, "hot_set"),
                           ![t].failed = @ \/ ~stores.hot_up]
    /\ UNCHANGED prev

\* Layer 3: await solar_data_service.fetch_solar_radiation(lat, lon) and
\* generate_interpolation_model.
FetchAndGenerate(t) ==
    /\ req[t].pc = "fetch"
    /\ \E data \in FetchOutcomes(stores) :
          req' = [req EXCEPT ![t].pc = "set_hot",
                             ![t].model = GenerateInterpolationModel(req[t].coord, data),
                             ![t].log = Append(@, "fetch")]
    /\ UNCHANGED <<stores, prev>>

\* await set_cached_model(lat, lon, model_dict, ttl_days=30).
WriteHot(t) ==
    /\ req[t].pc = "set_hot"
    /\ stores' = SetCachedModel(stores, req[t].coord, req[t].model)
    /\ req' = [req EXCEPT ![t].pc = "save",
                           ![t].log = Append(@, "hot_set"),
                           ![t].failed = @ \/ ~stores.hot_up]
    /\ UNCHANGED prev

\* await cache_repository.save(...), then return.
WriteWarm(t) ==
    /\ req[t].pc = "save"
    /\ stores' = Save(stores, req[t].coord, req[t].model)
    /\ req' = [req EXCEPT ![t].pc = "returned",
                           ![t].log = Append(@, "warm_save"),
                           ![t].failed = @ \/ ~stores.warm_up]
    /\ UNCHANGED prev

\* The number of times a call performed the operation op.
Count(log, op) == Cardinality({i \in DOMAIN log : log[i] = op})

\* No previous call that wrote the hot tier less than the time to live ago.
NoPrev == [coord |-> -1, fetches |-> 0, saves |-> 0, age |-> 0]

\* The caller takes the model. History: a call that wrote the hot tier (after
\* a fetch or after a warm hit) and saw no cache operation fail is remembered
\* as the caller's previous call for as long as the time to live since it
\* began.
CacheCallerNext(t) ==
    /\ req[t].pc = "returned"
    /\ prev' = [prev EXCEPT ![t] =
                  IF Count(req[t].log, "hot_set") > 0 /\ req[t].age < TtlTicks
                     /\ ~req[t].failed
                  THEN [coord |-> req[t].coord,
                        fetches |-> Count(req[t].log, "fetch"),
                        saves |-> Count(req[t].log, "warm_save"),
                        age |-> req[t].age]
                  ELSE NoPrev]
    /\ req' = [req EXCEPT ![t] = NoCall]
    /\ UNCHANGED stores

\* One cache tick passes: rows and calls grow older (ages at the time to live
\* need no further counting), and Redis drops the keys whose time is over.
CacheTick ==
    LET AgedKey(e) == IF e = NoEntry \/ e.age + 1 >= TtlTicks THEN NoEntry
                      ELSE [e EXCEPT !.age = @ + 1]
        AgedRow(e) == IF e = NoEntry THEN e ELSE [e EXCEPT !.age = Min(@ + 1, TtlTicks)]
        AgedCall(r) == IF r.coord = -1 THEN r ELSE [r EXCEPT !.age = Min(@ + 1, TtlTicks)]
        AgedPrev(r) == IF r = NoPrev \/ r.age + 1 >= TtlTicks THEN NoPrev
                       ELSE [r EXCEPT !.age = @ + 1]
    IN  /\ \/ \E k \in HotKeys : stores.hot[k] # NoEntry
           \/ \E c \in Coords : stores.warm[c] # NoEntry /\ stores.warm[c].age < TtlTicks
        /\ stores' = [stores EXCEPT !.hot = [k \in HotKeys |-> AgedKey(stores.hot[k])],
                                    !.warm = [c \in Coords |-> AgedRow(stores.warm[c])]]
        /\ req' = [t \in DOMAIN req |-> AgedCall(req[t])]
        /\ prev' = [t \in DOMAIN prev |-> AgedPrev(prev[t])]

\* A back end or the providers stop or start answering (Redis not reachable,
\* a failing database session, upstream outages); what the stores hold is kept.
CacheOutage ==
    /\ \/ stores' = [stores EXCEPT !.hot_up = ~@]
       \/ stores' = [stores EXCEPT !.warm_up = ~@]
       \/ stores' = [stores EXCEPT !.providers_up = ~@]
    /\ UNCHANGED <<req, prev>>

CacheVarsInit ==
    /\ stores = StoresInit
    /\ req = [t \in Callers |-> NoCall]
    /\ prev = [t \in Callers |-> NoPrev]

\* ------------------------------------------ warm store: the cached_locations table
\* The table at the level of rows and transactions: every repository call
\* runs one statement in a session of its own (db.session), which commits when
\* the call returns. An age a stands for a real age in [a, a + 1) ticks.

\* No row (fetchone() returned nothing).
NoRow == [coord |-> -1, payload |-> 0, age |-> 0]

\* The concurrent clients of the repository.
Clients == {1, 2}

\* A client outside the repository. row is the row a save inserts (NoRow when
\* it updates), found the coordinate of the row a query returned (-1 when it
\* returned none), count the result of the sweep.
NoTx == [pc |-> "idle", op |-> "none", coord |-> -1, locks |-> {}, row |-> NoRow,
         found |-> -1, count |-> 0]

VARIABLES
    table,        \* the committed rows: records of coord, payload, age since created_at
    tx,           \* per client: its repository call and open transaction
    has_postgis   \* CacheRepository._has_postgis

wvars == <<table, tx, has_postgis>>

\* created_at > NOW() - INTERVAL '1 day' * ttl_days; is_expired() is its
\* negation, and the sweep's WHERE clause selects the rows that are not live.
Live(r) == r.age < TtlTicks

\* The committed rows of a coordinate.
RowsAt(tab, c) == {r \in tab : r.coord = c}

\* The rows within the radius of c (ST_DWithin; the bounding box).
InRadius(tab, c) == {r \in tab : Distance(c, r.coord) <= RadiusUnits}

\* The nearest rows of a set (ORDER BY distance LIMIT 1 returns one of them).
Nearest(rows, c) ==
    {r \in rows : \A e \in rows : Distance(c, r.coord) <= Distance(c, e.coord)}

\* _find_with_postgis: the rows the query may return, the nearest of the live
\* rows within the radius; NoRow when there is none.
FindWithPostgis(tab, c) ==
    LET rows == Nearest({r \in InRadius(tab, c) : Live(r)}, c)
    IN  IF rows = {} THEN {NoRow} ELSE rows

\* _find_with_bbox: the nearest row of the box is selected (limit(1)), and
\* returned only `if cached and not cached.is_expired()`.
FindWithBbox(tab, c) ==
    LET rows == Nearest(InRadius(tab, c), c)
    IN  IF rows = {} THEN {NoRow}
        ELSE {IF Live(r) THEN r ELSE NoRow : r \in rows}

\* _find_nearby_impl: the PostGIS query while _has_postgis, else the fallback.
FindNearbyImpl(tab, postgis, c) ==
    IF postgis THEN FindWithPostgis(tab, c) ELSE FindWithBbox(tab, c)

\* Mutant: no unique constraint makes a statement wait for another.
RowLocked_NoConstraint(txs, t, c) == FALSE

\* The unique index on (latitude, longitude) and the row locks: a statement
\* that touches the coordinate waits for the open transaction of another
\* client that inserted, updated or deleted a row of it.
RowLocked(txs, t, c) ==
    \E u \in DOMAIN txs : u # t /\ txs[u].pc = "executed" /\ c \in txs[u].locks

\* INSERT ... ON CONFLICT (latitude, longitude) DO UPDATE SET
\* interpolation_model, source_dataset, data_tier, updated_at: the inserted
\* row, or the row of the coordinate with the writer's payload and its
\* created_at kept.
Upsert(tab, c, writer, inserted) ==
    IF inserted # NoRow THEN tab \cup {inserted}
    ELSE {IF r.coord = c THEN [r EXCEPT !.payload = writer] ELSE r : r \in tab}

\* save / _save_impl: the statement runs once no other transaction holds the
\* coordinate; it inserts a row created now when the coordinate has none.
SaveExecute(t) ==
    /\ tx[t].pc = "idle"
    /\ \E c \in Coords :
          /\ ~RowLocked(tx, t, c)
          /\ tx' = [tx EXCEPT ![t] =
                      [NoTx EXCEPT !.pc = "executed", !.op = "save", !.coord = c,
                                   !.locks = {c},
                                   !.row = IF RowsAt(table, c) = {}
                                           THEN [coord |-> c, payload |-> t, age |-> 0]
                                           ELSE NoRow]]
    /\ UNCHANGED <<table, has_postgis>>

\* Mutant: the sweep selects every row.
DeleteExpiredImpl_All(tab) == tab

\* _delete_expired_impl: the rows of DELETE ... WHERE created_at < NOW() -
\* INTERVAL '1 day' * cache_ttl_days.
DeleteExpiredImpl(tab) == {r \in tab : ~Live(r)}

\* delete_expired: the statement runs once no other transaction holds a row
\* it deletes; count is len(deleted), the rows of RETURNING id.
DeleteExpiredExecute(t) ==
    /\ tx[t].pc = "idle"
    /\ LET deleted == DeleteExpiredImpl(table)
       IN  /\ \A r \in deleted : ~RowLocked(tx, t, r.coord)
           /\ tx' = [tx EXCEPT ![t] = [NoTx EXCEPT !.pc = "executed", !.op = "sweep",
                                                    !.locks = {r.coord : r \in deleted},
                                                    !.count = Cardinality(deleted)]]
    /\ UNCHANGED <<table, has_postgis>>

\* db.session: `await session.commit()` when the body of the call has run; the
\* call returns.
SessionCommit(t) ==
    /\ tx[t].pc = "executed"
    /\ table' = IF tx[t].op = "save"
                THEN Upsert(table, tx[t].coord, t, tx[t].row)
                ELSE {r \in table : r.coord \notin tx[t].locks}
    /\ tx' = [tx EXCEPT ![t].pc = "returned", ![t].locks = {}, ![t].row = NoRow]
    /\ UNCHANGED has_postgis

\* find_nearby: one SELECT over the committed rows; the call returns its row.
FindNearbyQuery(t) ==
    /\ tx[t].pc = "idle"
    /\ \E c \in Coords : \E r \in FindNearbyImpl(table, has_postgis, c) :
          tx' = [tx EXCEPT ![t] = [NoTx EXCEPT !.pc = "returned", !.op = "find",
                                                  !.coord = c, !.found = r.coord]]
    /\ UNCHANGED <<table, has_postgis>>

\* find_nearby on a database without the PostGIS functions: the query raises,
\* _has_postgis becomes False, and the call returns nothing.
PostgisMissing(t) ==
    /\ tx[t].pc = "idle"
    /\ has_postgis
    /\ has_postgis' = FALSE
    /\ \E c \in Coords :
          tx' = [tx EXCEPT ![t] = [NoTx EXCEPT !.pc = "returned", !.op = "find_failed"]]
    /\ UNCHANGED table

\* The caller takes the result of the repository call.
RepositoryCallerNext(t) ==
    /\ tx[t].pc = "returned"
    /\ tx' = [tx EXCEPT ![t] = NoTx]
    /\ UNCHANGED <<table, has_postgis>>

\* One cache tick passes: every row grows older (ages at the time to live need
\* no further counting).
TableTick ==
    LET AgedRow(r) == IF r = NoRow THEN r ELSE [r EXCEPT !.age = Min(@ + 1, TtlTicks)]
    IN  /\ \E r \in table : Live(r)
        /\ table' = {AgedRow(r) : r \in table}
        /\ tx' = [t \in DOMAIN tx |-> [tx[t] EXCEPT !.row = AgedRow(@)]]
        /\ UNCHANGED has_postgis

TableVarsInit ==
    /\ table = {}
    /\ tx = [t \in Clients |-> NoTx]
    /\ has_postgis = TRUE

\* ------------------------------------------------ estimate router: entry points
\* The two endpoints that call get_or_create_model. FastAPI validates the
\* declared parameters before it runs the handler and answers 422 itself.

Endpoints == {"estimate", "interpolate"}

\* Latitudes and longitudes of requests, in degrees: inside, on and beyond the
\* limits.
LatValues == {-91, -90, 0, 90, 91}
LonValues == {-181, -180, 0, 180, 181}

\* EstimateRequest.lat: Field(..., ge=-90, le=90); lon: Field(..., ge=-180, le=180).
InRange(lat, lon) == lat >= -90 /\ lat <= 90 /\ lon >= -180 /\ lon <= 180

\* What FastAPI checks before the handler: the constraints of EstimateRequest
\* for /estimate; for /interpolate `lat: float, lon: float` and no limit.
Validates(endpoint, lat, lon) ==
    IF endpoint = "estimate" THEN InRange(lat, lon) ELSE TRUE

\* No request.
NoRequest == [pc |-> "idle", endpoint |-> "none", lat |-> 0, lon |-> 0, io |-> <<>>]

VARIABLE http   \* per connection: the request, its position, its cache and
                \* provider operations

hvars == <<http>>

\* A request arrives at one of the endpoints.
Receive(t) ==
    /\ http[t].pc = "idle"
    /\ \E e \in Endpoints, lat \in LatValues, lon \in LonValues :
          http' = [http EXCEPT ![t] = [NoRequest EXCEPT !.pc = "received", !.endpoint = e,
                                                       !.lat = lat, !.lon = lon]]

\* FastAPI validates the parameters: 422, or the handler runs.
Validate(t) ==
    /\ http[t].pc = "received"
    /\ http' = [http EXCEPT ![t].pc =
                  IF Validates(http[t].endpoint, http[t].lat, http[t].lon)
                  THEN "handler" ELSE "rejected_422"]

\* create_estimate / interpolate: `model = await get_or_create_model(...)`,
\* whose first statement awaits get_cached_model.
HandlerCallsModel(t) ==
    /\ http[t].pc = "handler"
    /\ http' = [http EXCEPT ![t].pc = "in_model", ![t].io = Append(@, "hot_get")]

\* The response is sent.
Respond(t) ==
    /\ http[t].pc \in {"rejected_422", "in_model"}
    /\ http' = [http EXCEPT ![t] = NoRequest]

RouterVarsInit == http = [t \in Tasks |-> NoRequest]

\* ----------------------------------------- cache manager: rescaling a cached model
\* The two hit paths of get_or_create_model with the values of the model:
\* the cached dictionary becomes an InterpolationModel, and _maybe_scale_model
\* returns it, or a copy scaled to the requested area.

\* Panel areas are 1 .. MaxArea, energy values 0 .. MaxValue.
MaxArea == 3
MaxValue == 2

Areas == 1..MaxArea
Values == 0..MaxValue

\* The cached models: area_m2, monthly_values and annual_values (flattened
\* over the grid), optimal_annual_kwh, and a field that scaling copies.
CachedModels ==
    [area_m2 : Areas, monthly_values : [1..2 -> Values], annual_values : [1..1 -> Values],
     optimal_annual_kwh : Values, data_tier : {"engineering"}]

\* scale_factor = target_area / model.area_m2, an exact fraction.
ScaleFactor(model, target_area) == [num |-> target_area, den |-> model.area_m2]

\* v * scale_factor, an exact fraction.
Times(v, f) == [num |-> v * f.num, den |-> f.den]

\* Mutant: the annual values are copied, not scaled.
ScaleModel_AnnualCopied(model, scale_factor, new_area) ==
    [area_m2 |-> new_area,
     monthly_values |-> [i \in DOMAIN model.monthly_values |->
                            Times(model.monthly_values[i], scale_factor)],
     annual_values |-> [i \in DOMAIN model.annual_values |->
                            Times(model.annual_values[i], [num |-> 1, den |-> 1])],
     optimal_annual_kwh |-> Times(model.optimal_annual_kwh, scale_factor),
     data_tier |-> model.data_tier]

\* _scale_model: a new InterpolationModel with every monthly value, every
\* annual value and optimal_annual_kwh multiplied by scale_factor, area_m2 =
\* new_area and the other fields copied.
ScaleModel(model, scale_factor, new_area) ==
    [area_m2 |-> new_area,
     monthly_values |-> [i \in DOMAIN model.monthly_values |->
                            Times(model.monthly_values[i], scale_factor)],
     annual_values |-> [i \in DOMAIN model.annual_values |->
                            Times(model.annual_values[i], scale_factor)],
     optimal_annual_kwh |-> Times(model.optimal_annual_kwh, scale_factor),
     data_tier |-> model.data_tier]

\* _maybe_scale_model: the model itself when its area is the target area,
\* else the scaled copy.
MaybeScaleModel(model, target_area) ==
    IF model.area_m2 # target_area
    THEN [scaled |-> TRUE,
          model |-> ScaleModel(model, ScaleFactor(model, target_area), target_area)]
    ELSE [scaled |-> FALSE, model |-> model]

\* No cached dictionary.
NoDict == [area_m2 |-> 0]

VARIABLE scale   \* one call served from the cache: the entries of the two
                 \* tiers for its coordinate, the InterpolationModel built
                 \* from the cached dictionary, the requested area, the
                 \* provider calls and the returned model

zvars == <<scale>>

ScaleIdle ==
    [pc |-> "idle", hot |-> NoDict, warm |-> NoDict, cached_model |-> NoDict,
     area_m2 |-> 0, fetches |-> 0, returned |-> [scaled |-> FALSE, model |-> NoDict]]

\* get_or_create_model(lat, lon, area_m2) is called for a coordinate that
\* the hot tier, or only the warm store, holds a model of.
ScaleCall ==
    /\ scale.pc = "idle"
    /\ \E m \in CachedModels, a \in Areas, path \in {"hot", "warm"} :
          scale' = [ScaleIdle EXCEPT !.pc = path, !.area_m2 = a,
                                     !.hot = IF path = "hot" THEN m ELSE NoDict,
                                     !.warm = IF path = "warm" THEN m ELSE NoDict]

\* Hot hit: cached_model = InterpolationModel(**cached_data);
\* return _maybe_scale_model(cached_model, area_m2).
ScaleHotHit ==
    /\ scale.pc = "hot"
    /\ scale' = [scale EXCEPT !.pc = "returned", !.cached_model = scale.hot,
                               !.returned = MaybeScaleModel(scale.hot, scale.area_m2)]

\* Warm hit: await set_cached_model(lat, lon, model_data);
\* cached_model = InterpolationModel(**model_data);
\* return _maybe_scale_model(cached_model, area_m2).
ScaleWarmHit ==
    /\ scale.pc = "warm"
    /\ scale' = [scale EXCEPT !.pc = "returned", !.hot = scale.warm,
                               !.cached_model = scale.warm,
                               !.returned = MaybeScaleModel(scale.warm, scale.area_m2)]

\* The caller takes the model.
ScaleCallerNext ==
    /\ scale.pc = "returned"
    /\ scale' = ScaleIdle

ScaleVarsInit == scale = ScaleIdle

\* ------------------------------------------- racing fetch: the synthetic generator
\* _generate_mock_data with the values it computes.  Numbers are integers:
\* random.uniform(0.9, 1.1) and the seasonal factors in percent, annual
\* radiation in hundredths of a kWh/m2.

MockLats == {-45, 0, 45}
MockLons == {-70, 10}
MockYears == {2022, 2023}

\* The values random.uniform(0.9, 1.1) can return (percent); the generator of
\* the random module is seeded from the system, never by this program.
UniformDraws == {90, 100, 110}

AbsLat(lat) == IF lat < 0 THEN -lat ELSE lat

\* base_ghi = 1500 * (1 - abs(lat) / 90)
BaseGhi(lat) == (1500 * (90 - AbsLat(lat))) \div 90

\* The months with the indices of enumerate(month_names) plus one.
MonthIndex == 1..12

\* The seasonal factor of month i (percent): 1.3 in the local summer, 0.85
\* in the local winter, 1 otherwise; the southern hemisphere has the
\* opposite seasons.
Seasonal(lat, i) ==
    LET dec_feb == i \in {12, 1, 2}
        jun_aug == i \in {6, 7, 8}
    IN  IF lat < 0
        THEN (IF dec_feb THEN 130 ELSE IF jun_aug THEN 85 ELSE 100)
        ELSE (IF jun_aug THEN 130 ELSE IF dec_feb THEN 85 ELSE 100)

\* _generate_mock_data(lat, lon, year) when random.uniform returned u:
\* annual_ghi = base_ghi * u, monthly_ghi[m] = (annual_ghi / 12) * seasonal
\* (here times 12 * 100), dni and dhi 0.75 and 0.25 of annual_ghi (times 100).
MockRadiation(lat, lon, year, u) ==
    LET annual_ghi == BaseGhi(lat) * u
    IN  [latitude |-> lat, longitude |-> lon, year |-> year,
         monthly_ghi |-> [i \in MonthIndex |-> annual_ghi * Seasonal(lat, i)],
         annual_ghi_kwh_m2 |-> annual_ghi,
         annual_dni_kwh_m2 |-> annual_ghi * 75,
         annual_dhi_kwh_m2 |-> annual_ghi * 25,
         source |-> "Mock Data (fallback)", data_tier |-> "estimated"]

\* No run of the generator.
NoRun == [latitude |-> 0, longitude |-> 0, year |-> 0, monthly_ghi |-> <<>>,
          annual_ghi_kwh_m2 |-> 0, annual_dni_kwh_m2 |-> 0, annual_dhi_kwh_m2 |-> 0,
          source |-> "none", data_tier |-> "none"]

\* Two runs of the generator are kept side by side.
Runs == {1, 2}

VARIABLE mock   \* per run: the radiation data the generator returned

mvars == <<mock>>

\* One run of _generate_mock_data.
GenerateMockDataRun(n) ==
    /\ mock[n] = NoRun
    /\ \E lat \in MockLats, lon \in MockLons, year \in MockYears, u \in UniformDraws :
          mock' = [mock EXCEPT ![n] = MockRadiation(lat, lon, year, u)]

\* The data of a run is dropped.
MockForget(n) ==
    /\ mock[n] # NoRun
    /\ mock' = [mock EXCEPT ![n] = NoRun]

MockVarsInit == mock = [n \in Runs |-> NoRun]

\* ------------------------------------------------------- interpolation model
\* generate_interpolation_model and InterpolationModel.interpolate with the
\* values they compute.  Fixed point: a factor f stands for f / 10000, energy
\* is in kWh / 10000, a fraction is kept exactly as num / den.

\* tilts = list(range(0, 91, tilt_step)), orientations =
\* list(range(0, 360, orientation_step)) with the default steps 5 and 15.
Tilts == [i \in 1..19 |-> 5 * (i - 1)]
Orientations == [i \in 1..24 |-> 15 * (i - 1)]

\* np.cos(np.radians(d * 0.9)) for d = 0 .. 90 degrees of tilt deviation.
CosTilt ==
    <<
    10000, 9999, 9995, 9989, 9980, 9969, 9956, 9940, 9921, 9900, 9877,
    9851, 9823, 9792, 9759, 9724, 9686, 9646, 9603, 9558, 9511, 9461, 9409,
    9354, 9298, 9239, 9178, 9114, 9048, 8980, 8910, 8838, 8763, 8686, 8607,
    8526, 8443, 8358, 8271, 8181, 8090, 7997, 7902, 7804, 7705, 7604, 7501,
    7396, 7290, 7181, 7071, 6959, 6845, 6730, 6613, 6494, 6374, 6252, 6129,
    6004, 5878, 5750, 5621, 5490, 5358, 5225, 5090, 4955, 4818, 4679, 4540,
    4399, 4258, 4115, 3971, 3827, 3681, 3535, 3387, 3239, 3090, 2940, 2790,
    2639, 2487, 2334, 2181, 2028, 1874, 1719, 1564
    >>

\* np.cos(np.radians(d * 0.5)) for d = 0, 15, .. 180 degrees of orientation
\* deviation.
CosOrientation ==
    <<
    10000, 9914, 9659, 9239, 8660, 7934, 7071, 6088, 5000, 3827, 2588,
    1305, 0
    >>

\* The latitudes of the models: on the tilt grid (0, -45, 90) and off it.
InterpLats == {-45, -33, 0, 34, 52, 90}

\* ghi * area_m2 * system_efficiency per month (kWh): no radiation, the
\* same radiation every month, and a seasonal profile.
MonthlyYields ==
    { [m \in MonthIndex |-> 0],
      [m \in MonthIndex |-> 40],
      [m \in MonthIndex |-> IF m \in {6, 7, 8} THEN 60 ELSE 30] }

\* get_optimal_tilt: min(max(abs(latitude), 0), 90).
GetOptimalTilt(latitude) == Min(Max(AbsLat(latitude), 0), 90)

\* get_optimal_orientation: 180 if latitude > 0 else 0.
GetOptimalOrientation(latitude) == IF latitude > 0 THEN 180 ELSE 0

\* calculate_tilt_factor: max(0.5, cos(0.9 * tilt_diff) * cos(0.5 *
\* orientation_diff)), the orientation difference folded into 0 .. 180.
CalculateTiltFactor(tilt, orientation, latitude) ==
    LET tilt_diff == Distance(tilt, GetOptimalTilt(latitude))
        raw_diff == Distance(orientation, GetOptimalOrientation(latitude))
        orientation_diff == IF raw_diff > 180 THEN 360 - raw_diff ELSE raw_diff
        tilt_factor == CosTilt[tilt_diff + 1]
        orientation_factor == CosOrientation[(orientation_diff \div 15) + 1]
    IN  Max(5000, (tilt_factor * orientation_factor) \div 10000)

\* calculate_monthly_generation: ghi * area * tilt_factor * system_efficiency
\* for each month.
CalculateMonthlyGeneration(yield, tilt, orientation, latitude) ==
    [m \in MonthIndex |-> yield[m] * CalculateTiltFactor(tilt, orientation, latitude)]

RECURSIVE SumValues(_)
\* sum(month_values)
SumValues(values) ==
    IF values = <<>> THEN 0 ELSE values[1] + SumValues(Tail(values))

\* The index in values of the entry nearest to x, the first one on a tie:
\* values.index(min(values, key=lambda v: abs(v - x))).
NearestIndex(values, x) ==
    CHOOSE i \in DOMAIN values :
        \A j \in DOMAIN values :
            \/ Distance(values[i], x) < Distance(values[j], x)
            \/ Distance(values[i], x) = Distance(values[j], x) /\ i <= j

\* generate_interpolation_model: the annual values of every grid point, the
\* optimal tilt and orientation of the latitude, and optimal_annual_kwh, the
\* annual value of the grid point nearest to them.
BuildInterpolationModel(latitude, yield) ==
    LET annual_values ==
            [t \in DOMAIN Tilts |-> [o \in DOMAIN Orientations |->
                SumValues(CalculateMonthlyGeneration(yield, Tilts[t], Orientations[o],
                                                     latitude))]]
        optimal_tilt == GetOptimalTilt(latitude)
        optimal_orientation == GetOptimalOrientation(latitude)
    IN  [latitude |-> latitude, annual_values |-> annual_values,
         optimal_tilt |-> optimal_tilt, optimal_orientation |-> optimal_orientation,
         optimal_annual_kwh |->
             annual_values[NearestIndex(Tilts, optimal_tilt)]
                          [NearestIndex(Orientations, optimal_orientation)]]

\* _find_index: the index below the first entry greater than value and the
\* fraction of the way to it; the first index with fraction 0 when value is
\* below the first entry, the last index with fraction 0 when no entry is
\* greater.
FindIndex(value, values) ==
    LET greater == {i \in DOMAIN values : value < values[i]}
    IN  IF greater = {} THEN [idx |-> Len(values), num |-> 0, den |-> 1]
        ELSE LET i == CHOOSE k \in greater : \A j \in greater : k <= j
             IN  IF i = 1 THEN [idx |-> 1, num |-> 0, den |-> 1]
                 ELSE [idx |-> i - 1, num |-> value - values[i - 1],
                       den |-> values[i] - values[i - 1]]

\* _bilinear, with fx = tf.num / tf.den and fy = of.num / of.den.
Bilinear(v00, v01, v10, v11, tf, of) ==
    [num |-> v00 * (tf.den - tf.num) * (of.den - of.num)
             + v01 * (tf.den - tf.num) * of.num
             + v10 * tf.num * (of.den - of.num)
             + v11 * tf.num * of.num,
     den |-> tf.den * of.den]

\* round(annual, 1): the fraction f of kWh / 10000 in tenths of a kWh.
RoundTenths(f) == (f.num + 500 * f.den) \div (1000 * f.den)

\* interpolate(tilt, orientation)["annual_generation_kwh"], in tenths of a
\* kWh: the bilinear interpolation of the four surrounding grid points, the
\* tilt index capped at the last one, the orientation index wrapping around.
InterpolateAnnual(model, tilt, orientation) ==
    LET tf == FindIndex(tilt, Tilts)
        of == FindIndex(orientation, Orientations)
        t0 == tf.idx
        t1 == Min(tf.idx + 1, Len(Tilts))
        o0 == of.idx
        o1 == (of.idx % Len(Orientations)) + 1
    IN  RoundTenths(Bilinear(model.annual_values[t0][o0], model.annual_values[t0][o1],
                             model.annual_values[t1][o0], model.annual_values[t1][o1],
                             tf, of))

\* No model, no result.
NoInterp == [latitude |-> 0, model |-> <<>>, optimum |-> -1,
             probe |-> [tilt |-> -1, orientation |-> -1, annual |-> -1]]

VARIABLE interp   \* a generated model, the annual output of interpolate at
                  \* its optimal tilt and orientation, and at one grid point

ivars == <<interp>>

\* model = generate_interpolation_model(solar_data, area_m2)
GenerateModel ==
    /\ interp.model = <<>>
    /\ \E latitude \in InterpLats, yield \in MonthlyYields :
          interp' = [NoInterp EXCEPT !.latitude = latitude,
                                     !.model = BuildInterpolationModel(latitude, yield)]

\* model.interpolate(model.optimal_tilt, model.optimal_orientation)
InterpolateOptimum ==
    /\ interp.model # <<>>
    /\ interp.optimum = -1
    /\ interp' = [interp EXCEPT !.optimum =
                      InterpolateAnnual(interp.model, interp.model.optimal_tilt,
                                        interp.model.optimal_orientation)]

\* model.interpolate(tilt, orientation) at a grid point.
InterpolateGridPoint ==
    /\ interp.model # <<>>
    /\ interp.probe.annual = -1
    /\ \E t \in DOMAIN Tilts, o \in DOMAIN Orientations :
          interp' = [interp EXCEPT !.probe =
                        [tilt |-> Tilts[t], orientation |-> Orientations[o],
                         annual |-> InterpolateAnnual(interp.model, Tilts[t],
                                                      Orientations[o])]]

\* The model is dropped.
InterpForget ==
    /\ interp.model # <<>>
    /\ interp' = NoInterp

InterpVarsInit == interp = NoInterp

\* ------------------------------------------- interpolation model: serialization
\* The complete InterpolationModel, to_json / from_json, and interpolate with
\* its annual and monthly results.

\* The fields of the InterpolationModel dataclass.
ModelFields ==
    {"latitude", "longitude", "tilts", "orientations", "monthly_values",
     "annual_values", "optimal_tilt", "optimal_orientation", "optimal_annual_kwh",
     "area_m2", "panel_efficiency", "data_tier", "year"}

\* generate_interpolation_model with every field of the model: the monthly
\* values of every grid point, their sums as annual values, the optimum and
\* the metadata (panel_efficiency in percent).
GenerateFullModel(latitude, longitude, yield) ==
    LET monthly_values ==
            [t \in DOMAIN Tilts |-> [o \in DOMAIN Orientations |->
                CalculateMonthlyGeneration(yield, Tilts[t], Orientations[o], latitude)]]
        annual_values ==
            [t \in DOMAIN Tilts |-> [o \in DOMAIN Orientations |->
                SumValues(monthly_values[t][o])]]
        optimal_tilt == GetOptimalTilt(latitude)
        optimal_orientation == GetOptimalOrientation(latitude)
    IN  [latitude |-> latitude, longitude |-> longitude,
         tilts |-> Tilts, orientations |-> Orientations,
         monthly_values |-> monthly_values, annual_values |-> annual_values,
         optimal_tilt |-> optimal_tilt, optimal_orientation |-> optimal_orientation,
         optimal_annual_kwh |->
             annual_values[NearestIndex(Tilts, optimal_tilt)]
                          [NearestIndex(Orientations, optimal_orientation)],
         area_m2 |-> 15, panel_efficiency |-> 22, data_tier |-> "engineering",
         year |-> 2023]

RECURSIVE Digits(_)
\* The decimal digits of a natural number, most significant first.
Digits(n) == IF n < 10 THEN <<n>> ELSE Append(Digits(n \div 10), n % 10)

RECURSIVE FromDigits(_)
\* The natural number written with the digits ds.
FromDigits(ds) ==
    IF Len(ds) = 1 THEN ds[1]
    ELSE 10 * FromDigits(SubSeq(ds, 1, Len(ds) - 1)) + ds[Len(ds)]

\* Mutant: the sign of a number is not written.
DumpNumber_NoSign(n) == [minus |-> FALSE, digits |-> Digits(AbsLat(n))]

\* json.dumps of a number: its sign and its decimal digits.
DumpNumber(n) == [minus |-> n < 0, digits |-> Digits(AbsLat(n))]

\* json.loads of a number.
LoadNumber(j) == IF j.minus THEN 0 - FromDigits(j.digits) ELSE FromDigits(j.digits)

\* to_json: json.dumps of a dictionary with one key per field, numbers as
\* decimal text, lists element by element.
ToJson(model) ==
    [latitude |-> DumpNumber(model.latitude),
     longitude |-> DumpNumber(model.longitude),
     tilts |-> [i \in DOMAIN model.tilts |-> DumpNumber(model.tilts[i])],
     orientations |->
         [i \in DOMAIN model.orientations |-> DumpNumber(model.orientations[i])],
     monthly_values |->
         [t \in DOMAIN model.monthly_values |->
             [o \in DOMAIN model.monthly_values[t] |->
                 [m \in DOMAIN model.monthly_values[t][o] |->
                     DumpNumber(model.monthly_values[t][o][m])]]],
     annual_values |->
         [t \in DOMAIN model.annual_values |->
             [o \in DOMAIN model.annual_values[t] |->
                 DumpNumber(model.annual_values[t][o])]],
     optimal_tilt |-> DumpNumber(model.optimal_tilt),
     optimal_orientation |-> DumpNumber(model.optimal_orientation),
     optimal_annual_kwh |-> DumpNumber(model.optimal_annual_kwh),
     area_m2 |-> DumpNumber(model.area_m2),
     panel_efficiency |-> DumpNumber(model.panel_efficiency),
     data_tier |-> model.data_tier,
     year |-> DumpNumber(model.year)]

\* from_json: cls(**json.loads(json_str)); a TypeError unless the keys are
\* the fields of the dataclass.
FromJson(j) ==
    IF DOMAIN j # ModelFields THEN [error |-> "TypeError"]
    ELSE
    [latitude |-> LoadNumber(j.latitude),
     longitude |-> LoadNumber(j.longitude),
     tilts |-> [i \in DOMAIN j.tilts |-> LoadNumber(j.tilts[i])],
     orientations |-> [i \in DOMAIN j.orientations |-> LoadNumber(j.orientations[i])],
     monthly_values |->
         [t \in DOMAIN j.monthly_values |->
             [o \in DOMAIN j.monthly_values[t] |->
                 [m \in DOMAIN j.monthly_values[t][o] |->
                     LoadNumber(j.monthly_values[t][o][m])]]],
     annual_values |->
         [t \in DOMAIN j.annual_values |->
             [o \in DOMAIN j.annual_values[t] |-> LoadNumber(j.annual_values[t][o])]],
     optimal_tilt |-> LoadNumber(j.optimal_tilt),
     optimal_orientation |-> LoadNumber(j.optimal_orientation),
     optimal_annual_kwh |-> LoadNumber(j.optimal_annual_kwh),
     area_m2 |-> LoadNumber(j.area_m2),
     panel_efficiency |-> LoadNumber(j.panel_efficiency),
     data_tier |-> j.data_tier,
     year |-> LoadNumber(j.year)]

\* interpolate(tilt, orientation): annual_generation_kwh and
\* monthly_breakdown, each the bilinear interpolation of the grid points
\* (t0, o0), (t0, o1), (t1, o0), (t1, o1) rounded to tenths of a kWh.
Interpolate(model, tilt, orientation) ==
    LET tf == FindIndex(tilt, model.tilts)
        of == FindIndex(orientation, model.orientations)
        t0 == tf.idx
        t1 == Min(tf.idx + 1, Len(model.tilts))
        o0 == of.idx
        o1 == (of.idx % Len(model.orientations)) + 1
    IN  [annual_generation_kwh |->
             RoundTenths(Bilinear(model.annual_values[t0][o0],
                                  model.annual_values[t0][o1],
                                  model.annual_values[t1][o0],
                                  model.annual_values[t1][o1], tf, of)),
         monthly_breakdown |->
             [m \in MonthIndex |->
                 RoundTenths(Bilinear(model.monthly_values[t0][o0][m],
                                      model.monthly_values[t0][o1][m],
                                      model.monthly_values[t1][o0][m],
                                      model.monthly_values[t1][o1][m], tf, of))]]

\* The probe points (tilt, orientation) of interpolate.
ProbePoints ==
    {<<25, 180>>, <<33, 47>>, <<0, 0>>, <<90, 345>>, <<30, 350>>, <<87, 359>>}

\* Nothing serialized, nothing interpolated.
NoSer == [model |-> <<>>, json |-> <<>>, restored |-> <<>>, probe |-> <<>>,
          result |-> <<>>, restored_result |-> <<>>]

VARIABLE ser   \* a model, its JSON text, the model restored from the text,
               \* and the results of interpolate on both at one probe point

jvars == <<ser>>

\* model = generate_interpolation_model(solar_data, area_m2=15.0)
SerGenerate ==
    /\ ser.model = <<>>
    /\ \E latitude \in InterpLats, longitude \in MockLons, yield \in MonthlyYields :
          ser' = [NoSer EXCEPT !.model = GenerateFullModel(latitude, longitude, yield)]

\* json_str = model.to_json()
SerToJson ==
    /\ ser.model # <<>>
    /\ ser.json = <<>>
    /\ ser' = [ser EXCEPT !.json = ToJson(ser.model)]

\* restored = InterpolationModel.from_json(json_str)
SerFromJson ==
    /\ ser.json # <<>>
    /\ ser.restored = <<>>
    /\ ser' = [ser EXCEPT !.restored = FromJson(ser.json)]

\* model.interpolate(tilt, orientation), and the same on the restored model
\* when there is one.
SerInterpolate ==
    /\ ser.model # <<>>
    /\ ser.probe = <<>>
    /\ \E p \in ProbePoints :
          ser' = [ser EXCEPT
                    !.probe = p,
                    !.result = Interpolate(ser.model, p[1], p[2]),
                    !.restored_result =
                        IF ser.restored = <<>> \/ "error" \in DOMAIN ser.restored
                        THEN <<>>
                        ELSE Interpolate(ser.restored, p[1], p[2])]

\* The model is dropped.
SerForget ==
    /\ ser.model # <<>>
    /\ ser' = NoSer

SerVarsInit == ser = NoSer

\* ------------------------------------------- provider adapters: upstream failures
\* What each adapter's _do_fetch makes of a failure of its upstream call, and
\* what its breaker records.  Each provider has a breaker of its own
\* (copernicus_breaker, pvgis_breaker).

\* _do_fetch when the upstream call has ended.  PVGIS: response.
\* raise_for_status() raises on an error status, a transport error raises from
\* client.get.  CAMS: _execute_cds_request catches every Exception of the
\* CDS call and returns _generate_mock_csv(params), which _do_fetch parses
\* and returns.
DoFetch(p, upstream_fails) ==
    IF p = "cams" THEN "returned"
    ELSE IF upstream_fails THEN "raised" ELSE "returned"

\* No upstream call made yet.
NoUpstream == [pc |-> "idle", failures |-> 0]

VARIABLES
    pbreaker,   \* per provider: its CircuitBreaker
    pcall       \* per provider: where the adapter's call is, and (history)
                \* the upstream failures in a row of its calls

pvars == <<pbreaker, pcall>>

\* fetch_solar_radiation of provider p: CircuitOpenError when breaker.is_open,
\* else (past the rate limiter and the semaphore) breaker.call(_do_fetch),
\* which awaits the upstream call.
ProviderFetch(p) ==
    /\ pcall[p].pc = "idle"
    /\ pbreaker[p].total_requests + pbreaker[p].rejected_requests < MaxRequests
    /\ IF pbreaker[p].state = OPEN
       THEN /\ pcall' = [pcall EXCEPT ![p].pc = "circuit_open"]
            /\ UNCHANGED pbreaker
       ELSE /\ pbreaker' = [pbreaker EXCEPT ![p] = Admission(pbreaker[p]).breaker]
            /\ pcall' = [pcall EXCEPT ![p].pc = "running"]

\* The upstream call of provider p ends, with data or with a failure;
\* _do_fetch returns or raises, and breaker.call records the outcome.
ProviderUpstreamEnds(p) ==
    /\ pcall[p].pc = "running"
    /\ \E upstream_fails \in BOOLEAN :
          LET outcome == DoFetch(p, upstream_fails)
          IN  /\ pbreaker' = [pbreaker EXCEPT ![p] =
                                 IF outcome = "raised" THEN OnFailure(@)
                                 ELSE OnSuccess(@)]
              /\ pcall' = [pcall EXCEPT
                             ![p].pc = outcome,
                             ![p].failures = IF upstream_fails THEN @ + 1 ELSE 0]

\* The caller has consumed the outcome.
ProviderCallerNext(p) ==
    /\ pcall[p].pc \in {"returned", "raised", "circuit_open"}
    /\ pcall' = [pcall EXCEPT ![p].pc = "idle"]
    /\ UNCHANGED pbreaker

\* One tick of time passes for the breakers.
ProviderTick ==
    /\ pbreaker' = [p \in DOMAIN pbreaker |-> BreakerOlder(pbreaker[p])]
    /\ UNCHANGED pcall

ProviderVarsInit ==
    /\ pbreaker = [p \in {"cams", "pvgis"} |-> BreakerInit]
    /\ pcall = [p \in {"cams", "pvgis"} |-> NoUpstream]

\* ------------------------------------------- cache manager: the age of cached data
\* The calls of get_or_create_model followed together with the time since the
\* provider fetch behind every stored model.  A call takes far less than a
\* cache tick, so here time passes between calls only.

VARIABLE origin   \* history: the age of the provider fetch behind the model of
                  \* each hot key (hot), of each warm row (warm) and of the
                  \* model each call holds (call)

gvars == <<origin>>

\* get_or_create_model(lat, lon) is called.
StaleGetOrCreateModel(t) ==
    /\ GetOrCreateModel(t)
    /\ UNCHANGED origin

\* Layer 1: the call holds the model of the hot key.
StaleHotLookup(t) ==
    /\ HotLookup(t)
    /\ origin' = [origin EXCEPT !.call[t] = IF req'[t].model # NoModel
                                            THEN origin.hot[MakeCacheKey(req[t].coord)]
                                            ELSE 0]

\* Layer 2: the call holds the model of the row find_nearby returned, the row
\* of the coordinate the model was generated for.
StaleWarmLookup(t) ==
    /\ WarmLookup(t)
    /\ origin' = [origin EXCEPT !.call[t] = IF req'[t].model # NoModel
                                            THEN origin.warm[req'[t].model.latitude]
                                            ELSE 0]

\* Warm hit: the hot key takes the model the call holds.
StaleBackFill(t) ==
    /\ BackFill(t)
    /\ origin' = [origin EXCEPT !.hot[MakeCacheKey(req[t].coord)] = origin.call[t]]

\* Layer 3: the providers are asked now.
StaleFetchAndGenerate(t) ==
    /\ FetchAndGenerate(t)
    /\ origin' = [origin EXCEPT !.call[t] = 0]

\* The hot key takes the model just generated.
StaleWriteHot(t) ==
    /\ WriteHot(t)
    /\ origin' = [origin EXCEPT !.hot[MakeCacheKey(req[t].coord)] = origin.call[t]]

\* The row of the coordinate takes the model just generated.
StaleWriteWarm(t) ==
    /\ WriteWarm(t)
    /\ origin' = [origin EXCEPT !.warm[req[t].coord] = origin.call[t]]

\* The caller takes the model.
StaleCallerNext(t) ==
    /\ CacheCallerNext(t)
    /\ origin' = [origin EXCEPT !.call[t] = 0]

\* One cache tick passes between two calls: every stored model's fetch is one
\* tick further back (beyond twice the time to live no further counting).
StaleTick ==
    /\ \A t \in DOMAIN req : req[t].pc = "idle"
    /\ CacheTick
    /\ origin' = [origin EXCEPT
                    !.hot = [k \in HotKeys |-> IF stores'.hot[k] = NoEntry THEN 0
                                                ELSE Min(origin.hot[k] + 1, 2 * TtlTicks)],
                    !.warm = [c \in Coords |-> IF stores'.warm[c] = NoEntry THEN 0
                                               ELSE Min(origin.warm[c] + 1, 2 * TtlTicks)]]

StaleVarsInit ==
    origin = [hot |-> [k \in HotKeys |-> 0], warm |-> [c \in Coords |-> 0],
              call |-> [t \in Callers |-> 0]]

\* ------------------------------------- cache manager: the requested efficiency
\* get_or_create_model(lat, lon, area_m2, panel_efficiency) for one
\* coordinate, with the values of the model: calls with any area and
\* efficiency, one after another, served from the hot tier, from the warm
\* store or from a new fetch, while entries expire.

\* panel_efficiency in percent (the range 0.18 - 0.25 of the docstring).
Efficiencies == {18, 22}

\* monthly_ghi of the coordinate (two months): what the providers return for
\* it, the same at every fetch.
Radiation == <<1, 2>>

\* generate_interpolation_model(solar_data, area_m2, panel_efficiency) at one
\* grid point: ghi * area_m2 * panel_efficiency per month (the tilt factor and
\* the fixed losses are a common factor), their sum, and the metadata.
GenerateForRequest(monthly_ghi, area_m2, panel_efficiency) ==
    LET monthly == [i \in DOMAIN monthly_ghi |-> monthly_ghi[i] * area_m2 * panel_efficiency]
    IN  [area_m2 |-> area_m2, panel_efficiency |-> panel_efficiency,
         monthly_values |-> monthly, annual_values |-> <<SumValues(monthly)>>,
         optimal_annual_kwh |-> SumValues(monthly), data_tier |-> "engineering"]

\* _maybe_scale_model(cached_model, area_m2) with the efficiency of the model:
\* _scale_model passes panel_efficiency = model.panel_efficiency on, and the
\* unscaled model is returned as it is.
MaybeScaleCached(model, target_area) ==
    LET r == MaybeScaleModel(model, target_area)
    IN  IF r.scaled
        THEN [scaled |-> TRUE,
              model |-> [area_m2 |-> r.model.area_m2,
                         panel_efficiency |-> model.panel_efficiency,
                         monthly_values |-> r.model.monthly_values,
                         annual_values |-> r.model.annual_values,
                         optimal_annual_kwh |-> r.model.optimal_annual_kwh,
                         data_tier |-> r.model.data_tier]]
        ELSE r

\* No call.
EffIdle ==
    [pc |-> "idle", area_m2 |-> 0, panel_efficiency |-> 0, path |-> "none",
     returned |-> [scaled |-> FALSE, model |-> NoDict]]

VARIABLES
    tiers,   \* the coordinate's hot entry and warm row: a model or NoDict
    effcall  \* the running call: its arguments, the tier that served it and
             \* the model returned

evars == <<tiers, effcall>>

\* get_or_create_model(lat, lon, area_m2, panel_efficiency) is called.
EffCall ==
    /\ effcall.pc = "idle"
    /\ \E a \in Areas, e \in Efficiencies :
          effcall' = [EffIdle EXCEPT !.pc = "get_cached", !.area_m2 = a,
                                     !.panel_efficiency = e]
    /\ UNCHANGED tiers

\* Layer 1: `if cached_data: return _maybe_scale_model(cached_model, area_m2)`.
EffHotLookup ==
    /\ effcall.pc = "get_cached"
    /\ effcall' = IF tiers.hot # NoDict
                  THEN [effcall EXCEPT !.pc = "returned", !.path = "hot",
                                       !.returned = MaybeScaleCached(tiers.hot, effcall.area_m2)]
                  ELSE [effcall EXCEPT !.pc = "find_nearby"]
    /\ UNCHANGED tiers

\* Layer 2: `if pg_cached:` back-fill the hot tier and return
\* _maybe_scale_model(cached_model, area_m2).
EffWarmLookup ==
    /\ effcall.pc = "find_nearby"
    /\ IF tiers.warm # NoDict
       THEN /\ tiers' = [tiers EXCEPT !.hot = tiers.warm]
            /\ effcall' = [effcall EXCEPT !.pc = "returned", !.path = "warm",
                                          !.returned = MaybeScaleCached(tiers.warm, effcall.area_m2)]
       ELSE /\ effcall' = [effcall EXCEPT !.pc = "fetch"]
            /\ UNCHANGED tiers

\* Layer 3: fetch_solar_radiation, generate_interpolation_model with the
\* requested area and efficiency, both tiers written, the new model returned.
EffFetch ==
    /\ effcall.pc = "fetch"
    /\ LET model == GenerateForRequest(Radiation, effcall.area_m2, effcall.panel_efficiency)
       IN  /\ tiers' = [hot |-> model, warm |-> model]
           /\ effcall' = [effcall EXCEPT !.pc = "returned", !.path = "fetch",
                                         !.returned = [scaled |-> FALSE, model |-> model]]

\* The caller takes the model.
EffCallerNext ==
    /\ effcall.pc = "returned"
    /\ effcall' = EffIdle
    /\ UNCHANGED tiers

\* Between two calls the hot key's time to live ends, or the sweep deletes the
\* expired row.
EffExpire ==
    /\ effcall.pc = "idle"
    /\ \/ tiers.hot # NoDict /\ tiers' = [tiers EXCEPT !.hot = NoDict]
       \/ tiers.warm # NoDict /\ tiers' = [tiers EXCEPT !.warm = NoDict]
    /\ UNCHANGED effcall

EffVarsInit ==
    /\ tiers = [hot |-> NoDict, warm |-> NoDict]
    /\ effcall = EffIdle

\* The variables of the orchestration above the provider adapters.
ovars == <<rvars, cvars, wvars, hvars, zvars, mvars, ivars, jvars, pvars, gvars, evars>>

\* What the adapter's actions leave alone.
AdapterFrame ==
    UNCHANGED <<bpc, admitted_in, streak, probe_successes, reopen_age, probes_admitted,
                rpc, saw_oldest, spc, ovars>>

\* ------------------------------------------------------------- specifications

vars == <<bvars, lvars, svars, avars, ovars>>

\* Every object as constructed, with the tasks T.
InitWith(T) ==
    /\ BreakerVarsInit
    /\ LimiterVarsInit(T)
    /\ SemVarsInit(T)
    /\ AdapterVarsInit(T)
    /\ RaceVarsInit
    /\ CacheVarsInit
    /\ TableVarsInit
    /\ RouterVarsInit
    /\ ScaleVarsInit
    /\ MockVarsInit
    /\ InterpVarsInit
    /\ SerVarsInit
    /\ ProviderVarsInit
    /\ StaleVarsInit
    /\ EffVarsInit

BreakerSpecInit == InitWith(Tasks)

BreakerSpecNext ==
    \/ \E t \in Tasks : BreakerCall(t) /\ UNCHANGED <<lvars, svars, avars, ovars>>
    \/ \E t \in Tasks : BreakerFuncReturn(t) /\ UNCHANGED <<lvars, svars, avars, ovars>>
    \/ \E t \in Tasks : BreakerFuncRaise(t) /\ UNCHANGED <<lvars, svars, avars, ovars>>
    \/ \E t \in Tasks : BreakerCallerNext(t) /\ UNCHANGED <<lvars, svars, avars, ovars>>
    \/ BreakerTick /\ UNCHANGED <<lvars, svars, avars, ovars>>

\* Tasks calling CircuitBreaker.call directly, with a wrapped function that may
\* return or raise.
BreakerSpec == BreakerSpecInit /\ [][BreakerSpecNext]_vars

LimiterSpecInit == InitWith(Tasks)

LimiterSpecNext ==
    \/ \E t \in Tasks : LimiterAcquire(t) /\ UNCHANGED <<bvars, svars, avars, ovars>>
    \/ \E t \in Tasks : LimiterResume(t) /\ UNCHANGED <<bvars, svars, avars, ovars>>
    \/ \E t \in Tasks : LimiterTryAcquire(t) /\ UNCHANGED <<bvars, svars, avars, ovars>>
    \/ \E t \in Tasks : LimiterCallerNext(t) /\ UNCHANGED <<bvars, svars, avars, ovars>>
    \/ LimiterTick /\ UNCHANGED <<bvars, svars, avars, ovars>>

\* Tasks calling acquire() and try_acquire() of one InternalRateLimiter.
LimiterSpec == LimiterSpecInit /\ [][LimiterSpecNext]_vars

\* The same, with the scheduling the event loop guarantees: time passes, and a
\* task whose sleep is over runs again.
LimiterLive ==
    /\ LimiterSpecInit
    /\ [][LimiterSpecNext]_vars
    /\ WF_vars(LimiterTick /\ UNCHANGED <<bvars, svars, avars, ovars>>)
    /\ \A t \in Tasks : WF_vars(LimiterResume(t) /\ UNCHANGED <<bvars, svars, avars, ovars>>)

SemaphoreSpecInit == InitWith(Workers)

SemaphoreSpecNext ==
    \/ \E t \in Workers : SemaphoreAcquire(t) /\ UNCHANGED <<bvars, lvars, avars, ovars>>
    \/ \E t \in Workers : SemaphoreEnter(t) /\ UNCHANGED <<bvars, lvars, avars, ovars>>
    \/ \E t \in Workers : SemaphoreWake(t) /\ UNCHANGED <<bvars, lvars, avars, ovars>>
    \/ \E t \in Workers : SemaphoreRelease(t) /\ UNCHANGED <<bvars, lvars, avars, ovars>>
    \/ \E t \in Workers : SemaphoreExit(t) /\ UNCHANGED <<bvars, lvars, avars, ovars>>
    \/ \E t \in Workers : SemaphoreCancelWaiting(t) /\ UNCHANGED <<bvars, lvars, avars, ovars>>
    \/ \E t \in Workers : SemaphoreCallerNext(t) /\ UNCHANGED <<bvars, lvars, avars, ovars>>

\* Tasks acquiring and releasing permits of one SemaphoreManager.
SemaphoreSpec == SemaphoreSpecInit /\ [][SemaphoreSpecNext]_vars

\* The same, with the scheduling the event loop guarantees: a body or a holder
\* comes to its end, and the asyncio semaphore wakes its waiters in turn.
SemaphoreLive ==
    /\ SemaphoreSpecInit
    /\ [][SemaphoreSpecNext]_vars
    /\ \A t \in Workers :
          /\ SF_vars(SemaphoreWake(t) /\ UNCHANGED <<bvars, lvars, avars, ovars>>)
          /\ WF_vars(SemaphoreRelease(t) /\ UNCHANGED <<bvars, lvars, avars, ovars>>)
          /\ WF_vars(SemaphoreExit(t) /\ UNCHANGED <<bvars, lvars, avars, ovars>>)

RaceSpecInit == InitWith(Tasks)

RaceSpecNext ==
    \/ FetchParallelStart /\ UNCHANGED <<bvars, lvars, svars, avars, cvars, wvars, hvars, zvars, mvars, ivars, jvars, pvars, gvars, evars>>
    \/ \E p \in Providers : TaskCompletes(p) /\ UNCHANGED <<bvars, lvars, svars, avars, cvars, wvars, hvars, zvars, mvars, ivars, jvars, pvars, gvars, evars>>
    \/ FetchParallelWake /\ UNCHANGED <<bvars, lvars, svars, avars, cvars, wvars, hvars, zvars, mvars, ivars, jvars, pvars, gvars, evars>>
    \/ RaceTick /\ UNCHANGED <<bvars, lvars, svars, avars, cvars, wvars, hvars, zvars, mvars, ivars, jvars, pvars, gvars, evars>>
    \/ FetchCallerNext /\ UNCHANGED <<bvars, lvars, svars, avars, cvars, wvars, hvars, zvars, mvars, ivars, jvars, pvars, gvars, evars>>

\* One racing fetch after another, the provider tasks completing at any time
\* with any outcome, or never.
RaceSpec == RaceSpecInit /\ [][RaceSpecNext]_vars

\* The same, with the scheduling the event loop guarantees: time passes, and
\* _fetch_parallel runs once asyncio.wait has returned.
RaceLive ==
    /\ RaceSpecInit
    /\ [][RaceSpecNext]_vars
    /\ WF_vars(RaceTick /\ UNCHANGED <<bvars, lvars, svars, avars, cvars, wvars, hvars, zvars, mvars, ivars, jvars, pvars, gvars, evars>>)
    /\ WF_vars(FetchParallelWake /\ UNCHANGED <<bvars, lvars, svars, avars, cvars, wvars, hvars, zvars, mvars, ivars, jvars, pvars, gvars, evars>>)

CacheSpecInit == InitWith(Tasks)

CacheSpecNext ==
    \/ \E t \in Callers : GetOrCreateModel(t) /\ UNCHANGED <<bvars, lvars, svars, avars, rvars, wvars, hvars, zvars, mvars, ivars, jvars, pvars, gvars, evars>>
    \/ \E t \in Callers : HotLookup(t) /\ UNCHANGED <<bvars, lvars, svars, avars, rvars, wvars, hvars, zvars, mvars, ivars, jvars, pvars, gvars, evars>>
    \/ \E t \in Callers : WarmLookup(t) /\ UNCHANGED <<bvars, lvars, svars, avars, rvars, wvars, hvars, zvars, mvars, ivars, jvars, pvars, gvars, evars>>
    \/ \E t \in Callers : BackFill(t) /\ UNCHANGED <<bvars, lvars, svars, avars, rvars, wvars, hvars, zvars, mvars, ivars, jvars, pvars, gvars, evars>>
    \/ \E t \in Callers : FetchAndGenerate(t) /\ UNCHANGED <<bvars, lvars, svars, avars, rvars, wvars, hvars, zvars, mvars, ivars, jvars, pvars, gvars, evars>>
    \/ \E t \in Callers : WriteHot(t) /\ UNCHANGED <<bvars, lvars, svars, avars, rvars, wvars, hvars, zvars, mvars, ivars, jvars, pvars, gvars, evars>>
    \/ \E t \in Callers : WriteWarm(t) /\ UNCHANGED <<bvars, lvars, svars, avars, rvars, wvars, hvars, zvars, mvars, ivars, jvars, pvars, gvars, evars>>
    \/ \E t \in Callers : CacheCallerNext(t) /\ UNCHANGED <<bvars, lvars, svars, avars, rvars, wvars, hvars, zvars, mvars, ivars, jvars, pvars, gvars, evars>>
    \/ CacheTick /\ UNCHANGED <<bvars, lvars, svars, avars, rvars, wvars, hvars, zvars, mvars, ivars, jvars, pvars, gvars, evars>>

\* get_or_create_model called again and again, for any coordinates, with both
\* cache back ends answering, while time passes and entries expire.
CacheSpec == CacheSpecInit /\ [][CacheSpecNext]_vars

CacheDegradedInit == InitWith(Tasks)

CacheDegradedNext ==
    \/ \E t \in Callers : GetOrCreateModel(t) /\ UNCHANGED <<bvars, lvars, svars, avars, rvars, wvars, hvars, zvars, mvars, ivars, jvars, pvars, gvars, evars>>
    \/ \E t \in Callers : HotLookup(t) /\ UNCHANGED <<bvars, lvars, svars, avars, rvars, wvars, hvars, zvars, mvars, ivars, jvars, pvars, gvars, evars>>
    \/ \E t \in Callers : WarmLookup(t) /\ UNCHANGED <<bvars, lvars, svars, avars, rvars, wvars, hvars, zvars, mvars, ivars, jvars, pvars, gvars, evars>>
    \/ \E t \in Callers : BackFill(t) /\ UNCHANGED <<bvars, lvars, svars, avars, rvars, wvars, hvars, zvars, mvars, ivars, jvars, pvars, gvars, evars>>
    \/ \E t \in Callers : FetchAndGenerate(t) /\ UNCHANGED <<bvars, lvars, svars, avars, rvars, wvars, hvars, zvars, mvars, ivars, jvars, pvars, gvars, evars>>
    \/ \E t \in Callers : WriteHot(t) /\ UNCHANGED <<bvars, lvars, svars, avars, rvars, wvars, hvars, zvars, mvars, ivars, jvars, pvars, gvars, evars>>
    \/ \E t \in Callers : WriteWarm(t) /\ UNCHANGED <<bvars, lvars, svars, avars, rvars, wvars, hvars, zvars, mvars, ivars, jvars, pvars, gvars, evars>>
    \/ \E t \in Callers : CacheCallerNext(t) /\ UNCHANGED <<bvars, lvars, svars, avars, rvars, wvars, hvars, zvars, mvars, ivars, jvars, pvars, gvars, evars>>
    \/ CacheOutage /\ UNCHANGED <<bvars, lvars, svars, avars, rvars, wvars, hvars, zvars, mvars, ivars, jvars, pvars, gvars, evars>>

\* get_or_create_model called again and again while the cache back ends and
\* the providers come and go; the event loop runs every step of a call.
CacheDegradedLive ==
    /\ CacheDegradedInit
    /\ [][CacheDegradedNext]_vars
    /\ \A t \in Callers : WF_vars(HotLookup(t) /\ UNCHANGED <<bvars, lvars, svars, avars, rvars, wvars, hvars, zvars, mvars, ivars, jvars, pvars, gvars, evars>>)
    /\ \A t \in Callers : WF_vars(WarmLookup(t) /\ UNCHANGED <<bvars, lvars, svars, avars, rvars, wvars, hvars, zvars, mvars, ivars, jvars, pvars, gvars, evars>>)
    /\ \A t \in Callers : WF_vars(BackFill(t) /\ UNCHANGED <<bvars, lvars, svars, avars, rvars, wvars, hvars, zvars, mvars, ivars, jvars, pvars, gvars, evars>>)
    /\ \A t \in Callers : WF_vars(FetchAndGenerate(t) /\ UNCHANGED <<bvars, lvars, svars, avars, rvars, wvars, hvars, zvars, mvars, ivars, jvars, pvars, gvars, evars>>)
    /\ \A t \in Callers : WF_vars(WriteHot(t) /\ UNCHANGED <<bvars, lvars, svars, avars, rvars, wvars, hvars, zvars, mvars, ivars, jvars, pvars, gvars, evars>>)
    /\ \A t \in Callers : WF_vars(WriteWarm(t) /\ UNCHANGED <<bvars, lvars, svars, avars, rvars, wvars, hvars, zvars, mvars, ivars, jvars, pvars, gvars, evars>>)

RouterSpecInit == InitWith(Tasks)

RouterSpecNext ==
    \/ \E t \in Tasks : Receive(t) /\ UNCHANGED <<bvars, lvars, svars, avars, rvars, cvars, wvars, zvars, mvars, ivars, jvars, pvars, gvars, evars>>
    \/ \E t \in Tasks : Validate(t) /\ UNCHANGED <<bvars, lvars, svars, avars, rvars, cvars, wvars, zvars, mvars, ivars, jvars, pvars, gvars, evars>>
    \/ \E t \in Tasks : HandlerCallsModel(t) /\ UNCHANGED <<bvars, lvars, svars, avars, rvars, cvars, wvars, zvars, mvars, ivars, jvars, pvars, gvars, evars>>
    \/ \E t \in Tasks : Respond(t) /\ UNCHANGED <<bvars, lvars, svars, avars, rvars, cvars, wvars, zvars, mvars, ivars, jvars, pvars, gvars, evars>>

\* Requests with any coordinates arriving at /estimate and /interpolate.
RouterSpec == RouterSpecInit /\ [][RouterSpecNext]_vars

ScaleSpecInit == InitWith(Tasks)

ScaleSpecNext ==
    \/ ScaleCall /\ UNCHANGED <<bvars, lvars, svars, avars, rvars, cvars, wvars, hvars, mvars, ivars, jvars, pvars, gvars, evars>>
    \/ ScaleHotHit /\ UNCHANGED <<bvars, lvars, svars, avars, rvars, cvars, wvars, hvars, mvars, ivars, jvars, pvars, gvars, evars>>
    \/ ScaleWarmHit /\ UNCHANGED <<bvars, lvars, svars, avars, rvars, cvars, wvars, hvars, mvars, ivars, jvars, pvars, gvars, evars>>
    \/ ScaleCallerNext /\ UNCHANGED <<bvars, lvars, svars, avars, rvars, cvars, wvars, hvars, mvars, ivars, jvars, pvars, gvars, evars>>

\* Calls served from the cache, for any cached model and any requested area.
ScaleSpec == ScaleSpecInit /\ [][ScaleSpecNext]_vars

MockSpecInit == InitWith(Tasks)

MockSpecNext ==
    \/ \E n \in Runs : GenerateMockDataRun(n) /\ UNCHANGED <<bvars, lvars, svars, avars, rvars, cvars, wvars, hvars, zvars, ivars, jvars, pvars, gvars, evars>>
    \/ \E n \in Runs : MockForget(n) /\ UNCHANGED <<bvars, lvars, svars, avars, rvars, cvars, wvars, hvars, zvars, ivars, jvars, pvars, gvars, evars>>

\* Runs of the synthetic generator, for any inputs.
MockSpec == MockSpecInit /\ [][MockSpecNext]_vars

InterpSpecInit == InitWith(Tasks)

InterpSpecNext ==
    \/ GenerateModel /\ UNCHANGED <<bvars, lvars, svars, avars, rvars, cvars, wvars, hvars, zvars, mvars, jvars, pvars, gvars, evars>>
    \/ InterpolateOptimum /\ UNCHANGED <<bvars, lvars, svars, avars, rvars, cvars, wvars, hvars, zvars, mvars, jvars, pvars, gvars, evars>>
    \/ InterpolateGridPoint /\ UNCHANGED <<bvars, lvars, svars, avars, rvars, cvars, wvars, hvars, zvars, mvars, jvars, pvars, gvars, evars>>
    \/ InterpForget /\ UNCHANGED <<bvars, lvars, svars, avars, rvars, cvars, wvars, hvars, zvars, mvars, jvars, pvars, gvars, evars>>

\* Models generated for any latitude and radiation, and interpolated.
InterpSpec == InterpSpecInit /\ [][InterpSpecNext]_vars

SerSpecInit == InitWith(Tasks)

SerSpecNext ==
    \/ SerGenerate /\ UNCHANGED <<bvars, lvars, svars, avars, rvars, cvars, wvars, hvars, zvars, mvars, ivars, pvars, gvars, evars>>
    \/ SerToJson /\ UNCHANGED <<bvars, lvars, svars, avars, rvars, cvars, wvars, hvars, zvars, mvars, ivars, pvars, gvars, evars>>
    \/ SerFromJson /\ UNCHANGED <<bvars, lvars, svars, avars, rvars, cvars, wvars, hvars, zvars, mvars, ivars, pvars, gvars, evars>>
    \/ SerInterpolate /\ UNCHANGED <<bvars, lvars, svars, avars, rvars, cvars, wvars, hvars, zvars, mvars, ivars, pvars, gvars, evars>>
    \/ SerForget /\ UNCHANGED <<bvars, lvars, svars, avars, rvars, cvars, wvars, hvars, zvars, mvars, ivars, pvars, gvars, evars>>

\* Models written to JSON, read back and interpolated.
SerSpec == SerSpecInit /\ [][SerSpecNext]_vars

ProviderSpecInit == InitWith(Tasks)

ProviderSpecNext ==
    \/ \E p \in DOMAIN pcall : ProviderFetch(p) /\ UNCHANGED <<bvars, lvars, svars, avars, rvars, cvars, wvars, hvars, zvars, mvars, ivars, jvars, gvars, evars>>
    \/ \E p \in DOMAIN pcall : ProviderUpstreamEnds(p) /\ UNCHANGED <<bvars, lvars, svars, avars, rvars, cvars, wvars, hvars, zvars, mvars, ivars, jvars, gvars, evars>>
    \/ \E p \in DOMAIN pcall : ProviderCallerNext(p) /\ UNCHANGED <<bvars, lvars, svars, avars, rvars, cvars, wvars, hvars, zvars, mvars, ivars, jvars, gvars, evars>>
    \/ ProviderTick /\ UNCHANGED <<bvars, lvars, svars, avars, rvars, cvars, wvars, hvars, zvars, mvars, ivars, jvars, gvars, evars>>

\* Calls of both provider adapters whose upstream call may fail.
ProviderSpec == ProviderSpecInit /\ [][ProviderSpecNext]_vars

StaleSpecInit == InitWith(Tasks)

StaleSpecNext ==
    \/ \E t \in DOMAIN req : StaleGetOrCreateModel(t) /\ UNCHANGED <<bvars, lvars, svars, avars, rvars, wvars, hvars, zvars, mvars, ivars, jvars, pvars, evars>>
    \/ \E t \in DOMAIN req : StaleHotLookup(t) /\ UNCHANGED <<bvars, lvars, svars, avars, rvars, wvars, hvars, zvars, mvars, ivars, jvars, pvars, evars>>
    \/ \E t \in DOMAIN req : StaleWarmLookup(t) /\ UNCHANGED <<bvars, lvars, svars, avars, rvars, wvars, hvars, zvars, mvars, ivars, jvars, pvars, evars>>
    \/ \E t \in DOMAIN req : StaleBackFill(t) /\ UNCHANGED <<bvars, lvars, svars, avars, rvars, wvars, hvars, zvars, mvars, ivars, jvars, pvars, evars>>
    \/ \E t \in DOMAIN req : StaleFetchAndGenerate(t) /\ UNCHANGED <<bvars, lvars, svars, avars, rvars, wvars, hvars, zvars, mvars, ivars, jvars, pvars, evars>>
    \/ \E t \in DOMAIN req : StaleWriteHot(t) /\ UNCHANGED <<bvars, lvars, svars, avars, rvars, wvars, hvars, zvars, mvars, ivars, jvars, pvars, evars>>
    \/ \E t \in DOMAIN req : StaleWriteWarm(t) /\ UNCHANGED <<bvars, lvars, svars, avars, rvars, wvars, hvars, zvars, mvars, ivars, jvars, pvars, evars>>
    \/ \E t \in DOMAIN req : StaleCallerNext(t) /\ UNCHANGED <<bvars, lvars, svars, avars, rvars, wvars, hvars, zvars, mvars, ivars, jvars, pvars, evars>>
    \/ StaleTick /\ UNCHANGED <<bvars, lvars, svars, avars, rvars, wvars, hvars, zvars, mvars, ivars, jvars, pvars, evars>>

\* get_or_create_model called again and again, one call at a time, with the age
\* of the data behind every stored model, while time passes between calls.
StaleSpec == StaleSpecInit /\ [][StaleSpecNext]_vars

\* The callers of get_or_create_model that run at the same time.
ConcurrentCallers == {1, 2}

\* Every object as constructed, with two callers of get_or_create_model.
ConvergeSpecInit ==
    /\ BreakerVarsInit
    /\ LimiterVarsInit(Tasks)
    /\ SemVarsInit(Tasks)
    /\ AdapterVarsInit(Tasks)
    /\ RaceVarsInit
    /\ stores = StoresInit
    /\ req = [t \in ConcurrentCallers |-> NoCall]
    /\ prev = [t \in ConcurrentCallers |-> NoPrev]
    /\ TableVarsInit
    /\ RouterVarsInit
    /\ ScaleVarsInit
    /\ MockVarsInit
    /\ InterpVarsInit
    /\ SerVarsInit
    /\ ProviderVarsInit
    /\ StaleVarsInit
    /\ EffVarsInit

ConvergeSpecNext ==
    \/ \E t \in DOMAIN req : GetOrCreateModel(t) /\ UNCHANGED <<bvars, lvars, svars, avars, rvars, wvars, hvars, zvars, mvars, ivars, jvars, pvars, gvars, evars>>
    \/ \E t \in DOMAIN req : HotLookup(t) /\ UNCHANGED <<bvars, lvars, svars, avars, rvars, wvars, hvars, zvars, mvars, ivars, jvars, pvars, gvars, evars>>
    \/ \E t \in DOMAIN req : WarmLookup(t) /\ UNCHANGED <<bvars, lvars, svars, avars, rvars, wvars, hvars, zvars, mvars, ivars, jvars, pvars, gvars, evars>>
    \/ \E t \in DOMAIN req : BackFill(t) /\ UNCHANGED <<bvars, lvars, svars, avars, rvars, wvars, hvars, zvars, mvars, ivars, jvars, pvars, gvars, evars>>
    \/ \E t \in DOMAIN req : FetchAndGenerate(t) /\ UNCHANGED <<bvars, lvars, svars, avars, rvars, wvars, hvars, zvars, mvars, ivars, jvars, pvars, gvars, evars>>
    \/ \E t \in DOMAIN req : WriteHot(t) /\ UNCHANGED <<bvars, lvars, svars, avars, rvars, wvars, hvars, zvars, mvars, ivars, jvars, pvars, gvars, evars>>
    \/ \E t \in DOMAIN req : WriteWarm(t) /\ UNCHANGED <<bvars, lvars, svars, avars, rvars, wvars, hvars, zvars, mvars, ivars, jvars, pvars, gvars, evars>>
    \/ \E t \in DOMAIN req : CacheCallerNext(t) /\ UNCHANGED <<bvars, lvars, svars, avars, rvars, wvars, hvars, zvars, mvars, ivars, jvars, pvars, gvars, evars>>

\* Two callers in get_or_create_model at the same time, their awaits
\* interleaved in any order, with both cache back ends answering, within
\* less than a cache tick.
ConvergeSpec == ConvergeSpecInit /\ [][ConvergeSpecNext]_vars

EffSpecInit == InitWith(Tasks)

EffSpecNext ==
    \/ EffCall /\ UNCHANGED <<bvars, lvars, svars, avars, rvars, cvars, wvars, hvars, zvars, mvars, ivars, jvars, pvars, gvars>>
    \/ EffHotLookup /\ UNCHANGED <<bvars, lvars, svars, avars, rvars, cvars, wvars, hvars, zvars, mvars, ivars, jvars, pvars, gvars>>
    \/ EffWarmLookup /\ UNCHANGED <<bvars, lvars, svars, avars, rvars, cvars, wvars, hvars, zvars, mvars, ivars, jvars, pvars, gvars>>
    \/ EffFetch /\ UNCHANGED <<bvars, lvars, svars, avars, rvars, cvars, wvars, hvars, zvars, mvars, ivars, jvars, pvars, gvars>>
    \/ EffCallerNext /\ UNCHANGED <<bvars, lvars, svars, avars, rvars, cvars, wvars, hvars, zvars, mvars, ivars, jvars, pvars, gvars>>
    \/ EffExpire /\ UNCHANGED <<bvars, lvars, svars, avars, rvars, cvars, wvars, hvars, zvars, mvars, ivars, jvars, pvars, gvars>>

\* Calls of get_or_create_model for one coordinate with any area and
\* efficiency, one after another, while the entries of the two tiers expire.
EffSpec == EffSpecInit /\ [][EffSpecNext]_vars

WarmSpecInit == InitWith(Tasks)

WarmSpecNext ==
    \/ \E t \in Clients : SaveExecute(t) /\ UNCHANGED <<bvars, lvars, svars, avars, rvars, cvars, hvars, zvars, mvars, ivars, jvars, pvars, gvars, evars>>
    \/ \E t \in Clients : DeleteExpiredExecute(t) /\ UNCHANGED <<bvars, lvars, svars, avars, rvars, cvars, hvars, zvars, mvars, ivars, jvars, pvars, gvars, evars>>
    \/ \E t \in Clients : SessionCommit(t) /\ UNCHANGED <<bvars, lvars, svars, avars, rvars, cvars, hvars, zvars, mvars, ivars, jvars, pvars, gvars, evars>>
    \/ \E t \in Clients : FindNearbyQuery(t) /\ UNCHANGED <<bvars, lvars, svars, avars, rvars, cvars, hvars, zvars, mvars, ivars, jvars, pvars, gvars, evars>>
    \/ \E t \in Clients : PostgisMissing(t) /\ UNCHANGED <<bvars, lvars, svars, avars, rvars, cvars, hvars, zvars, mvars, ivars, jvars, pvars, gvars, evars>>
    \/ \E t \in Clients : RepositoryCallerNext(t) /\ UNCHANGED <<bvars, lvars, svars, avars, rvars, cvars, hvars, zvars, mvars, ivars, jvars, pvars, gvars, evars>>
    \/ TableTick /\ UNCHANGED <<bvars, lvars, svars, avars, rvars, cvars, hvars, zvars, mvars, ivars, jvars, pvars, gvars, evars>>

\* Clients calling save, find_nearby and delete_expired concurrently, each
\* call in a session of its own, while time passes.
WarmSpec == WarmSpecInit /\ [][WarmSpecNext]_vars

AdapterLiveInit == InitWith(Tasks)

\* Requests through the adapter of a provider that is down and then recovers
\* for good.
AdapterLiveNext ==
    \/ \E t \in Tasks : AdapterFetch(t) /\ AdapterFrame
    \/ \E t \in Tasks : AdapterLimiterResume(t) /\ AdapterFrame
    \/ \E t \in Tasks : AdapterSemWake(t) /\ AdapterFrame
    \/ \E t \in Tasks : AdapterFuncReturn(t) /\ AdapterFrame
    \/ \E t \in Tasks : AdapterFuncRaise(t) /\ AdapterFrame
    \/ \E t \in Tasks : AdapterCallerNext(t) /\ AdapterFrame
    \/ AdapterTick /\ AdapterFrame
    \/ UpstreamRecovers /\ AdapterFrame

\* The event loop lets time pass and runs every task that can run; requests
\* keep arriving; the upstream call ends; the asyncio semaphore wakes its
\* waiters in turn.
AdapterLive ==
    /\ AdapterLiveInit
    /\ [][AdapterLiveNext]_vars
    /\ WF_vars(AdapterTick /\ AdapterFrame)
    /\ WF_vars(UpstreamRecovers /\ AdapterFrame)
    /\ \A t \in Tasks :
          /\ WF_vars(AdapterFetch(t) /\ AdapterFrame)
          /\ WF_vars(AdapterLimiterResume(t) /\ AdapterFrame)
          /\ SF_vars(AdapterSemWake(t) /\ AdapterFrame)
          /\ WF_vars(AdapterFuncReturn(t) /\ AdapterFrame)
          /\ WF_vars(AdapterFuncRaise(t) /\ AdapterFrame)
          /\ WF_vars(AdapterCallerNext(t) /\ AdapterFrame)

\* ------------------------------------------------------ CircuitBreaker: claims

\* A call enters CircuitBreaker.call in this step.
Enters(t) == bpc[t] = "idle" /\ bpc'[t] # "idle"

SuccessRecorded == breaker'.successful_requests = breaker.successful_requests + 1

FailureRecorded == breaker'.failed_requests = breaker.failed_requests + 1

\* C1: from CLOSED the breaker opens exactly in the step that records the
\* FailureThreshold-th failure in a row (no success recorded in between); with
\* fewer failures in a row it stays CLOSED; a success recorded while CLOSED
\* sets the failure counter to 0.
C1_Threshold ==
    [][ /\ (breaker.state = CLOSED /\ breaker'.state = OPEN)
              <=> (breaker.state = CLOSED /\ streak' = FailureThreshold)
        /\ (breaker.state = CLOSED /\ streak' < FailureThreshold)
              => breaker'.state = CLOSED
        /\ (breaker.state = CLOSED /\ SuccessRecorded)
              => breaker'.failure_count = 0 ]_bvars

\* The circuit has opened for the first time, on the FailureThreshold-th failure
\* in a row, after an earlier failure whose count a success had reset.
C1_Witness ==
    /\ breaker.state = OPEN
    /\ breaker.state_changes = 1
    /\ streak = FailureThreshold
    /\ breaker.failed_requests = FailureThreshold + 1
    /\ breaker.successful_requests = 1

\* C2: a call that enters while the breaker is OPEN and no more than
\* recovery_timeout has elapsed since the last failure is rejected with
\* retry_after > 0, the wrapped function is not invoked, and nothing of the
\* breaker changes but rejected_requests, which grows by one.
C2_FailFast ==
    [][ \A t \in Tasks :
          ( /\ breaker.state = OPEN
            /\ breaker.last_failure_time # NoTime
            /\ breaker.last_failure_time <= RecoveryTicks
            /\ Enters(t) )
          => /\ bpc'[t] = "rejected"
             /\ retry_after'[t] > 0
             /\ breaker' = [breaker EXCEPT !.rejected_requests = @ + 1] ]_bvars

\* A call was rejected at the very end of the cool-down (elapsed = timeout).
C2_Witness ==
    \E t \in Tasks :
        /\ bpc[t] = "rejected"
        /\ retry_after[t] > 0
        /\ breaker.state = OPEN
        /\ breaker.last_failure_time = RecoveryTicks
        /\ breaker.rejected_requests > 0

\* C3: a call that enters while the breaker is OPEN and more than
\* recovery_timeout has elapsed since the last failure moves the breaker to
\* HALF_OPEN with the half-open success count at 0, and the wrapped function is
\* invoked.
C3_Probe ==
    [][ \A t \in Tasks :
          ( /\ breaker.state = OPEN
            /\ breaker.last_failure_time > RecoveryTicks
            /\ Enters(t) )
          => /\ breaker'.state = HALF_OPEN
             /\ breaker'.half_open_calls = 0
             /\ bpc'[t] = "running" ]_bvars

\* A probe is running: its call found the breaker OPEN and made it HALF_OPEN.
C3_Witness ==
    \E t \in Tasks :
        /\ bpc[t] = "running"
        /\ admitted_in[t] = OPEN
        /\ breaker.state = HALF_OPEN
        /\ breaker.half_open_calls = 0

\* C5: while HALF_OPEN fewer than half_open_max_calls successes have been
\* recorded since HALF_OPEN was entered; a success that is not the
\* half_open_max_calls-th leaves the breaker HALF_OPEN; the
\* half_open_max_calls-th makes it CLOSED with the failure counter at 0, and the
\* breaker goes from HALF_OPEN to CLOSED in no other way.
C5_CloseFromHalfOpen ==
    [][ /\ breaker'.state = HALF_OPEN => probe_successes' < HalfOpenMaxCalls
        /\ (breaker.state = HALF_OPEN /\ SuccessRecorded
              /\ probe_successes' < HalfOpenMaxCalls)
              => breaker'.state = HALF_OPEN
        /\ (breaker.state = HALF_OPEN /\ probe_successes' = HalfOpenMaxCalls)
              => (breaker'.state = CLOSED /\ breaker'.failure_count = 0)
        /\ (breaker.state = HALF_OPEN /\ breaker'.state = CLOSED)
              => (SuccessRecorded /\ probe_successes' = HalfOpenMaxCalls) ]_bvars

\* The breaker has closed again after half_open_max_calls probe successes.
C5_Witness ==
    /\ breaker.state = CLOSED
    /\ breaker.state_changes = 3
    /\ probe_successes = HalfOpenMaxCalls
    /\ breaker.failure_count = 0

\* C6: a failure recorded while HALF_OPEN makes the breaker OPEN in that step,
\* and a call that enters while no more than recovery_timeout has elapsed since
\* that failure is rejected.
C6_Reopen ==
    [][ /\ (breaker.state = HALF_OPEN /\ FailureRecorded) => breaker'.state = OPEN
        /\ \A t \in Tasks :
              ( /\ breaker.state = OPEN
                /\ reopen_age # NoTime
                /\ reopen_age <= RecoveryTicks
                /\ Enters(t) )
              => bpc'[t] = "rejected" ]_bvars

\* After a probe success, a probe failure reopened the circuit and a later call
\* was rejected within the new cool-down.
C6_Witness ==
    /\ breaker.state = OPEN
    /\ reopen_age # NoTime
    /\ reopen_age <= RecoveryTicks
    /\ probe_successes >= 1
    /\ \E t \in Tasks : bpc[t] = "rejected"

\* C33: while the breaker is HALF_OPEN at most half_open_max_calls calls have
\* been admitted to the wrapped function since it became HALF_OPEN; a further
\* caller is not let through until the breaker has closed or reopened.
C33_HalfOpenProbeLimit ==
    breaker.state = HALF_OPEN => probes_admitted <= HalfOpenMaxCalls

\* A call finishes in this step.
Completes(t) == bpc[t] = "running" /\ bpc'[t] # "running"

\* C38: the outcome of a call admitted while CLOSED does not disturb a breaker
\* that has changed state since: its failure recorded while the breaker is
\* OPEN leaves the time of the last failure, from which the cool-down is
\* counted, as it was, and its success recorded while the breaker is HALF_OPEN
\* is not counted as a half-open success.
C38_LateOutcomes ==
    [][ \A t \in Tasks :
          (Completes(t) /\ admitted_in[t] = CLOSED)
          => /\ (breaker.state = OPEN /\ FailureRecorded)
                   => breaker'.last_failure_time = breaker.last_failure_time
             /\ (breaker.state = HALF_OPEN /\ SuccessRecorded)
                   => /\ breaker'.half_open_calls = breaker.half_open_calls
                      /\ breaker'.state = HALF_OPEN ]_bvars

\* ----------------------------------------------------- provider adapter: claims

\* Room left under MaxRequests for the calls a recovery takes.
Headroom == AdapterStarted + HalfOpenMaxCalls <= MaxRequests

\* C4: when the provider's breaker is OPEN, recovery_timeout has elapsed since
\* the last failure and the upstream call succeeds from now on, then, with
\* requests arriving through fetch_solar_radiation, the breaker is eventually
\* CLOSED again (a request was admitted as a probe), without reset().
C4_Recovery ==
    ( /\ breaker.state = OPEN
      /\ breaker.last_failure_time > RecoveryTicks
      /\ upstream_ok
      /\ Headroom )
    ~> (breaker.state = CLOSED)

\* ------------------------------------------------- InternalRateLimiter: claims

\* Number of recorded timestamps within the trailing window.
InWindow(calls) ==
    Cardinality({i \in 1..Len(calls) : calls[i] < WindowTicks})

\* C7: the number of granted-call timestamps within the trailing window never
\* exceeds max_calls.
C7_WindowBound == InWindow(limiter.calls) <= MaxCalls

\* A try_acquire() call runs in this step.
Tries(t) == rpc[t] = "idle" /\ rpc'[t] \in {"try_true", "try_false"}

\* C8: try_acquire() returns True exactly when fewer than max_calls grants lie
\* within the trailing window (so, from an empty window, the first max_calls
\* calls within a window get True and the next one False, and True again once
\* the oldest grant is window_seconds old); a True records one timestamp, a
\* False records none.
C8_NonBlocking ==
    [][ \A t \in DOMAIN rpc :
          Tries(t) =>
            /\ rpc'[t] = "try_true" <=> InWindow(limiter.calls) < MaxCalls
            /\ rpc'[t] = "try_true" =>
                  InWindow(limiter'.calls) = InWindow(limiter.calls) + 1
            /\ rpc'[t] = "try_false" =>
                  /\ InWindow(limiter'.calls) = InWindow(limiter.calls)
                  /\ Len(limiter'.calls) <= Len(limiter.calls) ]_lvars

\* A try_acquire() was rejected on a window holding exactly max_calls grants,
\* with no blocked caller around.
C8_Witness ==
    \E t \in DOMAIN rpc :
        /\ rpc[t] = "try_false"
        /\ InWindow(limiter.calls) = MaxCalls
        /\ Len(limiter.calls) = MaxCalls
        /\ limiter.waiting = 0

\* C9: acquire() grants at once only under the limit; a caller that found the
\* window full is granted only once the oldest timestamp it found has left the
\* window, and every such caller is eventually granted.
C9_Blocking ==
    /\ [][ \A t \in DOMAIN rpc :
             /\ (rpc[t] = "idle" /\ rpc'[t] = "acquired")
                   => InWindow(limiter.calls) < MaxCalls
             /\ (rpc[t] = "sleeping" /\ rpc'[t] = "acquired")
                   => saw_oldest[t] >= WindowTicks ]_lvars
    /\ \A t \in Tasks : (rpc[t] = "sleeping") ~> (rpc[t] = "acquired")

\* A blocked caller has been granted while another caller is still blocked.
C9_Witness ==
    \E t, u \in DOMAIN rpc :
        /\ t # u
        /\ rpc[t] = "acquired"
        /\ saw_oldest[t] = WindowTicks
        /\ rpc[u] = "sleeping"

\* ---------------------------------------------------- SemaphoreManager: claims

\* The tasks between a completed acquire and the matching release.
Holders == {t \in DOMAIN spc : spc[t] \in {"holding", "in_with"}}

\* C10: at most max_concurrent tasks hold a permit; a task that acquires while
\* max_concurrent permits are held is suspended, and a suspended task gets its
\* permit only when fewer than max_concurrent are held.
C10_ConcurrencyBound ==
    /\ [](Cardinality(Holders) <= MaxConcurrent)
    /\ [][ \A t \in DOMAIN spc :
             /\ ( /\ spc[t] = "idle"
                  /\ spc'[t] # "idle"
                  /\ Cardinality(Holders) = MaxConcurrent )
                   => spc'[t] \in {"blocked", "blocked_with"}
             /\ ( /\ spc[t] \in {"blocked", "blocked_with"}
                  /\ spc'[t] \in {"holding", "in_with"} )
                   => Cardinality(Holders) < MaxConcurrent ]_svars

\* All permits are held and a task is suspended in acquire.
C10_Witness ==
    /\ Cardinality(Holders) = MaxConcurrent
    /\ \E t \in DOMAIN spc : spc[t] \in {"blocked", "blocked_with"}
    /\ sem.waiting >= 1

\* Tasks inside async with, waiting in __aenter__ or in the body.
InScope == {t \in DOMAIN spc : spc[t] \in {"blocked_with", "in_with"}}

\* C11: whether a body returns, raises or is cancelled, and whether a waiter
\* is cancelled, no permit is lost: the permits left plus the permits held
\* are always max_concurrent (so all of them are free once no task holds one),
\* and a task waiting in async with always gets its permit unless it is
\* cancelled.
C11_NoPermitLeak ==
    /\ [](sem.value + Cardinality(Holders) = MaxConcurrent)
    /\ [](Holders = {} => sem.value = MaxConcurrent)
    /\ \A t \in Workers :
          (spc[t] = "blocked_with") ~> (spc[t] \in {"in_with", "cancelled_waiting"})

\* After one task was cancelled while waiting and another was cancelled in its
\* body, a third task holds the permit.
C11_Witness ==
    \E t, u, w \in DOMAIN spc :
        /\ spc[t] = "cancelled_waiting"
        /\ spc[u] = "cancelled"
        /\ spc[w] = "in_with"
        /\ sem.value = MaxConcurrent - 1

\* The tasks suspended in acquire.
Blocked == {t \in DOMAIN spc : spc[t] \in {"blocked", "blocked_with"}}

\* C35: active is the number of tasks holding a permit and waiting is the
\* number of tasks suspended in acquire, also after tasks were cancelled while
\* waiting; when no task holds or awaits a permit, get_status shows active 0,
\* waiting 0 and available max_concurrent.
C35_AccurateCounters ==
    /\ sem.active = Cardinality(Holders)
    /\ sem.waiting = Cardinality(Blocked)
    /\ (Holders = {} /\ Blocked = {})
          => /\ sem.active = 0
             /\ sem.waiting = 0
             /\ MaxConcurrent - sem.active = MaxConcurrent

\* ------------------------------------------ provider adapter: guard order

\* C12: a call of fetch_solar_radiation that ends in CircuitOpenError ends so
\* at its entry, without having slept in or recorded a slot in the rate
\* limiter and without having taken a permit of the semaphore.
C12_GuardOrder ==
    [][ \A t \in Tasks :
          (apc[t] # "circuit_open" /\ apc'[t] = "circuit_open")
          => /\ apc[t] = "idle"
             /\ limiter' = limiter
             /\ sem' = sem ]_vars

\* ----------------------------------------------------- racing fetch: claims

\* The provider tasks that completed with a valid result, in completion order.
ValidInOrder == SelectSeq(completed, LAMBDA p : ptask[p].value # None)

\* C13: a returned provider result is the result of the task that was the
\* first, in completion order, to complete with a valid result, and after the
\* return no provider task is left running.
C13_FirstValidWins ==
    race.phase = "returned" =>
        /\ ValidInOrder # <<>> => race.result = ptask[ValidInOrder[1]].value
        /\ \A p \in Providers : ptask[p].state # "running"

\* C14: when one provider's call raised and the other provider's task
\* completed with valid data, the fetch returns that data, in either order of
\* completion.
C14_FailureIsolation ==
    \A p, q \in Providers :
        ( /\ race.phase = "returned"
          /\ ptask[p].state = "done" /\ ptask[p].outcome = Raised
          /\ ptask[q].state = "done" /\ ptask[q].value # None )
        => race.result = ptask[q].value

\* The failing provider completed first, in an earlier wait; the other one's
\* data was returned.
C14_Witness ==
    /\ race.phase = "returned"
    /\ completed = <<"cams", "pvgis">>
    /\ ptask["cams"].outcome = Raised
    /\ race.result = PvgisData
    /\ race.total > 0

\* No provider task completed with a valid result.
NoValidResult == \A p \in Providers : ptask[p].value = None

\* C15: a started fetch always returns, with a result; when no provider task
\* completed with a valid result (both failed, or returned nothing valid, or
\* never responded) the result is the synthetic data of tier "estimated".
C15_Fallback ==
    /\ [](race.phase = "returned" => race.result # None)
    /\ []((race.phase = "returned" /\ NoValidResult)
            => (race.result = GenerateMockData /\ race.result.data_tier = "estimated"))
    /\ (race.phase = "waiting") ~> (race.phase = "returned")

\* Neither provider ever responded: the timeout ended the fetch with the
\* synthetic data and both tasks cancelled.
C15_Witness ==
    /\ race.phase = "returned"
    /\ completed = <<>>
    /\ \A p \in Providers : ptask[p].state = "cancelled"
    /\ race.result = GenerateMockData

\* C16: the fetch returns no later than the timeout after the race started.
C16_GlobalDeadline ==
    race.phase = "returned" => race.total <= WaitTimeout

\* C17: the result of a fetch is real CAMS data, PVGIS data or the fetcher's
\* synthetic data; CAMS data not marked real is never the result, its
\* completion alone does not end the race, and PVGIS data completing with or
\* after it is the result.
C17_QualityCheck ==
    /\ [](race.phase = "returned"
            => race.result \in {CamsReal, PvgisData, GenerateMockData})
    /\ []((race.phase = "returned" /\ ptask["cams"].outcome = CamsMock
              /\ ptask["pvgis"].outcome = PvgisData)
            => race.result = PvgisData)
    /\ [][ ( /\ race.phase = "waiting"
             /\ ptask["cams"].outcome = CamsMock
             /\ ptask["pvgis"].state = "running"
             /\ ~TimedOut(race) )
           => race'.phase # "returned" ]_rvars

\* Mock CAMS data came first, in an earlier wait, and the PVGIS data that
\* completed later was returned.
C17_Witness ==
    /\ race.phase = "returned"
    /\ completed = <<"cams", "pvgis">>
    /\ ptask["cams"].outcome = CamsMock
    /\ race.result = PvgisData
    /\ race.total > 0

\* ------------------------------------------------------- cache manager: claims

\* The operations a call of get_or_create_model can have performed when it
\* returns: a hot hit; a warm hit and the back-fill; a fetch and both writes.
HotHitPath == <<"hot_hit">>
WarmHitPath == <<"hot_miss", "warm_hit", "hot_set">>
MissPath == <<"hot_miss", "warm_miss", "fetch", "hot_set", "warm_save">>

IsPrefix(a, b) == Len(a) <= Len(b) /\ SubSeq(b, 1, Len(a)) = a

\* C18: every call looks the hot tier up first, then the warm store, then the
\* providers. A hot hit performs nothing else; a warm hit performs the hot
\* back-fill and neither a fetch nor a warm write; the fetch happens only
\* after both tiers missed and is followed by the hot write and the warm write.
C18_LookupOrder ==
    \A t \in Callers :
        /\ \E path \in {HotHitPath, WarmHitPath, MissPath} : IsPrefix(req[t].log, path)
        /\ req[t].pc = "returned" => req[t].log \in {HotHitPath, WarmHitPath, MissPath}

\* C18 witness: a call returns from a warm hit after a call that fetched.
C18_Witness ==
    \E t \in Callers :
        /\ req[t].pc = "returned" /\ req[t].log = WarmHitPath
        /\ prev[t].fetches = 1

\* The caller's running call has returned and repeats the coordinate of its
\* previous call, which fetched; less than the time to live has passed since
\* that call began, and no cache operation of either call failed.
RepeatsWithinTtl(t) ==
    /\ req[t].pc = "returned"
    /\ prev[t].coord = req[t].coord
    /\ prev[t].fetches > 0
    /\ prev[t].age < TtlTicks
    /\ ~req[t].failed

\* C19: two calls in sequence for the same coordinate within the time to live,
\* the first one fetching: over both calls there is exactly one fetch and
\* exactly one warm-store write, and the second call is a cache hit.
C19_Idempotence ==
    \A t \in Callers :
        RepeatsWithinTtl(t) =>
            /\ prev[t].fetches + Count(req[t].log, "fetch") = 1
            /\ prev[t].saves + Count(req[t].log, "warm_save") = 1
            /\ req[t].log \in {HotHitPath, WarmHitPath}

\* C19 witness: the second call has returned, a tick after the first began.
C19_Witness ==
    \E t \in Callers : RepeatsWithinTtl(t) /\ prev[t].age >= 1 /\ req[t].log = HotHitPath

\* The caller's running call has returned after it missed the hot tier while
\* the warm store held a live row, of another coordinate with another hot
\* key, within the radius, and no cache operation of the call failed.
NearRowStored(t) ==
    /\ req[t].pc = "returned"
    /\ req[t].log[1] = "hot_miss"
    /\ ~req[t].failed
    /\ \E a \in req[t].near :
          a # req[t].coord /\ MakeCacheKey(a) # MakeCacheKey(req[t].coord)

RepeatsWarmHit(t) ==
    /\ Len(req[t].log) >= 1
    /\ prev[t].coord = req[t].coord
    /\ prev[t].fetches = 0
    /\ ~req[t].failed

\* C21: the step that ends a call served by a warm hit leaves the returned
\* model, with a fresh time to live, under the hot key of the requested
\* coordinate; the caller's next call for that coordinate, while that entry
\* lives, is a hot hit and queries the warm store not at all.
C21_BackFill ==
    /\ [][ \A t \in Callers :
             (req[t].pc = "backfill" /\ req'[t].pc = "returned" /\ ~req'[t].failed)
             => stores'.hot[MakeCacheKey(req[t].coord)]
                    = [model |-> req'[t].model, age |-> 0] ]_vars
    /\ [](\A t \in Callers :
             RepeatsWarmHit(t) => /\ req[t].log = HotHitPath
                                  /\ req[t].pc = "returned"
                                  /\ req[t].model # NoModel)

\* C21 witness: the call after a warm hit has returned from the hot tier, a
\* tick after the warm hit began.
C21_Witness ==
    \E t \in Callers : RepeatsWarmHit(t) /\ prev[t].age >= 1 /\ req[t].log = HotHitPath

\* The caller's call takes its next step, from pc a to pc b.
CallStep(t, a, b) == req[t].pc = a /\ req'[t].pc = b

\* The operation the step of a call has logged.
Logged(t) == req'[t].log[Len(req'[t].log)]

\* C25: a read of a tier that does not answer is a miss, a write to a tier
\* that does not answer changes nothing and the call goes on; every call
\* returns a model, whatever fails; and a fetch while no provider answers
\* yields the model of the synthetic estimate.
C25_GracefulDegradation ==
    /\ [][ \A t \in Callers :
             /\ (req[t].pc = "get_cached" /\ req'[t].pc # "get_cached" /\ ~stores.hot_up)
                  => Logged(t) = "hot_miss" /\ req'[t].pc = "find_nearby"
             /\ (req[t].pc = "find_nearby" /\ req'[t].pc # "find_nearby" /\ ~stores.warm_up)
                  => Logged(t) = "warm_miss" /\ req'[t].pc = "fetch"
             /\ (CallStep(t, "backfill", "returned") /\ ~stores.hot_up) => stores' = stores
             /\ (CallStep(t, "set_hot", "save") /\ ~stores.hot_up) => stores' = stores
             /\ (CallStep(t, "save", "returned") /\ ~stores.warm_up) => stores' = stores
             /\ (CallStep(t, "fetch", "set_hot") /\ ~stores.providers_up)
                  => req'[t].model = GenerateInterpolationModel(req[t].coord, GenerateMockData)
          ]_vars
    /\ [](\A t \in Callers :
             /\ req[t].pc \in {"idle", "get_cached", "find_nearby", "backfill", "fetch",
                               "set_hot", "save", "returned"}
             /\ req[t].pc = "returned" => req[t].model # NoModel)
    /\ \A t \in Callers : (req[t].pc = "get_cached") ~> (req[t].pc = "returned")

\* C25 witness: with the hot tier, the warm store and the providers all down
\* and both stores holding a live model of the coordinate, the call has
\* returned the model of the synthetic estimate.
C25_Witness ==
    \E t \in Callers :
        /\ req[t].pc = "returned" /\ req[t].failed /\ req[t].log = MissPath
        /\ ~stores.hot_up /\ ~stores.warm_up /\ ~stores.providers_up
        /\ stores.hot[MakeCacheKey(req[t].coord)].model.data_tier = "engineering"
        /\ stores.warm[req[t].coord].model.data_tier = "engineering"
        /\ req[t].model = GenerateInterpolationModel(req[t].coord, GenerateMockData)

\* C39: when calls of get_or_create_model that ran together for the same
\* coordinate, each of them finding it in neither tier, have all returned, the
\* warm store has the row of the coordinate and the hot entry of the
\* coordinate holds the model of that row.
C39_TierConvergence ==
    \A c \in Coords :
        (\A t \in DOMAIN req : /\ req[t].pc = "returned" /\ req[t].coord = c
                                /\ req[t].age = 0 /\ Count(req[t].log, "fetch") = 1)
        => /\ stores.warm[c] # NoEntry
           /\ stores.hot[MakeCacheKey(c)].model = stores.warm[c].model

\* ----------------------------------------------------------- warm store: claims

\* C22: whatever the interleaving of concurrent saves, the table holds at most
\* one row of a coordinate, and the commit of a save leaves the coordinate
\* with the single row of the committing writer's payload: of two racing
\* writers the one that commits later.
C22_Uniqueness ==
    /\ [](\A r1, r2 \in table : r1.coord = r2.coord => r1 = r2)
    /\ [][ \A t \in Clients :
             (tx[t].pc = "executed" /\ tx[t].op = "save" /\ tx'[t].pc = "returned")
             => \E r \in table' : /\ RowsAt(table', tx[t].coord) = {r}
                                  /\ r.payload = t ]_vars

\* C22 witness: both writers saved the same coordinate and have returned; the
\* row of the coordinate is the second writer's update of the first one's row.
C22_Witness ==
    /\ tx[1].op = "save" /\ tx[2].op = "save"
    /\ tx[1].pc = "returned" /\ tx[2].pc = "returned"
    /\ tx[1].coord = tx[2].coord
    /\ \E r \in table : RowsAt(table, tx[1].coord) = {r} /\ r.payload = 2 /\ r.age >= 1

\* The live rows within the radius of c: the entries a lookup may return.
Eligible(tab, c) == {r \in InRadius(tab, c) : Live(r)}

\* C23: find_nearby returns one of the nearest of the stored rows that are
\* within the radius and not past their time to live, and nothing only when
\* there is no such row; on the PostGIS path and on the bounding-box path.
C23_ProximityLookup ==
    [][ \A t \in Clients :
          (tx[t].pc = "idle" /\ tx'[t].op = "find")
          => LET c == tx'[t].coord
             IN  /\ Eligible(table, c) = {} => tx'[t].found = -1
                 /\ Eligible(table, c) # {}
                      => \E r \in Nearest(Eligible(table, c), c) : tx'[t].found = r.coord ]_vars

\* C24: the sweep selects exactly the rows past their time to live and
\* returns their number; its commit removes those rows and no other; a query
\* returns only a live row that is in the table when it runs; and with saves,
\* queries and sweeps interleaved no coordinate has two rows and no row is
\* held by two transactions.
C24_Sweep ==
    /\ [][ \A t \in Clients :
             (tx[t].pc = "idle" /\ tx'[t].op = "sweep")
             => /\ tx'[t].locks = {r.coord : r \in {e \in table : e.age >= TtlTicks}}
                /\ tx'[t].count = Cardinality({e \in table : e.age >= TtlTicks}) ]_vars
    /\ [][ \A t \in Clients :
             (tx[t].pc = "executed" /\ tx[t].op = "sweep" /\ tx'[t].pc = "returned")
             => /\ table' \subseteq table
                /\ Cardinality(table \ table') = tx'[t].count
                /\ \A r \in table : r.age < TtlTicks => r \in table'
                /\ \A r \in table \ table' : r.age >= TtlTicks ]_vars
    /\ [][ \A t \in Clients :
             (tx[t].pc = "idle" /\ tx'[t].op = "find" /\ tx'[t].found # -1)
             => \E r \in table : r.coord = tx'[t].found /\ r.age < TtlTicks ]_vars
    /\ [](\A r1, r2 \in table : r1.coord = r2.coord => r1 = r2)
    /\ [](\A t, u \in Clients : t # u => tx[t].locks \cap tx[u].locks = {})

\* C24 witness: a sweep that ran while the other client's save was open has
\* returned 1; a live row is still in the table.
C24_Witness ==
    \E t, u \in Clients :
        /\ tx[t].op = "sweep" /\ tx[t].pc = "returned" /\ tx[t].count = 1
        /\ tx[u].op = "save" /\ tx[u].pc = "executed"
        /\ \E r \in table : Live(r)
        /\ \A r \in table : Live(r)

\* C36: when a save of a coordinate has committed and returned, a find_nearby
\* of that coordinate run at once returns the row of the coordinate, which
\* holds the saved model; also when the coordinate had a row past its time to
\* live that no sweep had removed. (A save whose own transaction stayed open
\* for the time to live is left aside.)
C36_SaveFindable ==
    [][ \A t \in Clients :
          (/\ tx[t].pc = "executed" /\ tx[t].op = "save" /\ tx'[t].pc = "returned"
           /\ (tx[t].row = NoRow \/ Live(tx[t].row)))
          =>\A r \in FindNearbyImpl(table', has_postgis', tx[t].coord) :
                /\ r.coord = tx[t].coord
                /\ \E e \in RowsAt(table', tx[t].coord) : e.payload = t ]_vars

\* ------------------------------------------------------ estimate router: claims

\* C26: a request whose latitude or longitude is out of range performs no
\* cache or provider operation, on either endpoint, and is answered 422.
C26_ValidationBeforeIO ==
    \A t \in Tasks :
        (http[t].pc # "idle" /\ ~InRange(http[t].lat, http[t].lon))
        => /\ http[t].io = <<>>
           /\ http[t].pc \in {"received", "rejected_422"}

\* C28: every row that get_or_create_model has written to the warm store has
\* the data tier "engineering" or "standard", whichever source produced the
\* radiation data of its model.
C28_WarmRowDataTier ==
    \A c \in Coords :
        stores.warm[c] # NoEntry
        => stores.warm[c].model.data_tier \in {"engineering", "standard"}

\* ------------------------------------------------------------ rescaling: claims

\* The fraction f is the value v multiplied by num / den.
IsProduct(f, v, num, den) == f.num * den = v * num * f.den

\* The call has returned a model cached with another area than requested.
Rescaled == scale.pc = "returned" /\ scale.cached_model.area_m2 # scale.area_m2

\* C27: when the cached model's area differs from the requested area, the
\* returned model is a copy with the requested area whose monthly values,
\* annual values and optimal_annual_kwh are the cached ones multiplied by
\* requested area / cached area; the cached model is as it was in the tier it
\* came from, the warm store is as before the call, the hot tier holds the
\* cached model and never the copy, and no provider was called.
C27_Rescaling ==
    /\ [](Rescaled =>
            LET m == scale.cached_model
                out == scale.returned.model
            IN  /\ scale.returned.scaled
                /\ out.area_m2 = scale.area_m2
                /\ \A i \in DOMAIN m.monthly_values :
                      IsProduct(out.monthly_values[i], m.monthly_values[i],
                                scale.area_m2, m.area_m2)
                /\ \A i \in DOMAIN m.annual_values :
                      IsProduct(out.annual_values[i], m.annual_values[i],
                                scale.area_m2, m.area_m2)
                /\ IsProduct(out.optimal_annual_kwh, m.optimal_annual_kwh,
                             scale.area_m2, m.area_m2)
                /\ out.data_tier = m.data_tier
                /\ scale.hot = m
                /\ scale.fetches = 0)
    /\ [][ scale'.pc = "returned"
           => /\ scale'.warm = scale.warm
              /\ scale.hot # NoDict => scale'.hot = scale.hot
              /\ scale'.cached_model \in {scale.hot, scale.warm} ]_vars

\* C27 witness: a model cached for area 1 with values 1 and 2 has been
\* returned for area 3 from a warm hit.
C27_Witness ==
    /\ Rescaled
    /\ scale.warm # NoDict
    /\ scale.cached_model.area_m2 = 1 /\ scale.area_m2 = 3
    /\ scale.cached_model.monthly_values = <<1, 2>>
    /\ scale.returned.model.monthly_values[2] = [num |-> 6, den |-> 1]

\* ---------------------------------------------------- synthetic generator: claims

\* C29: two runs of the synthetic generator for the same latitude, longitude
\* and year return the same twelve monthly values and the same annual totals.
C29_DeterministicFallback ==
    \A n1, n2 \in Runs :
        (/\ mock[n1] # NoRun /\ mock[n2] # NoRun
         /\ mock[n1].latitude = mock[n2].latitude
         /\ mock[n1].longitude = mock[n2].longitude
         /\ mock[n1].year = mock[n2].year)
        => /\ mock[n1].monthly_ghi = mock[n2].monthly_ghi
           /\ mock[n1].annual_ghi_kwh_m2 = mock[n2].annual_ghi_kwh_m2
           /\ mock[n1].annual_dni_kwh_m2 = mock[n2].annual_dni_kwh_m2
           /\ mock[n1].annual_dhi_kwh_m2 = mock[n2].annual_dhi_kwh_m2

\* ------------------------------------------------------- interpolation: claims

\* C30: for every generated model, the annual output of interpolate at the
\* model's optimal tilt and orientation is at least the annual output of
\* interpolate at every grid point of the model.
C30_OptimumIsMaximum ==
    (interp.optimum # -1 /\ interp.probe.annual # -1)
    => interp.optimum >= interp.probe.annual

\* ------------------------------------------------------ serialization: claims

Bracket(value, values, wrap) ==
    LET lo == CHOOSE i \in DOMAIN values :
                  /\ values[i] <= value
                  /\ \A j \in DOMAIN values : values[j] <= value => j <= i
    IN  IF lo < Len(values)
        THEN [idx |-> lo, next |-> lo + 1, num |-> value - values[lo],
              den |-> values[lo + 1] - values[lo]]
        ELSE IF wrap
        THEN [idx |-> lo, next |-> 1, num |-> value - values[lo],
              den |-> 360 - values[lo]]
        ELSE [idx |-> lo, next |-> lo, num |-> 0, den |-> 1]

\* C34: the annual and the twelve monthly results of interpolate are the
\* bilinear blend of the values at the two neighbouring tilt grid points and
\* the two neighbouring orientation grid points, the orientation wrapping
\* from the last grid point (345) to the first (0 as 360), weighted by the
\* position of the request between them.
C34_WraparoundInterpolation ==
    ser.probe # <<>> =>
        LET m == ser.model
            tb == Bracket(ser.probe[1], m.tilts, FALSE)
            ob == Bracket(ser.probe[2], m.orientations, TRUE)
        IN  /\ ser.result.annual_generation_kwh =
                   RoundTenths(Bilinear(m.annual_values[tb.idx][ob.idx],
                                        m.annual_values[tb.idx][ob.next],
                                        m.annual_values[tb.next][ob.idx],
                                        m.annual_values[tb.next][ob.next], tb, ob))
            /\ \A k \in MonthIndex :
                   ser.result.monthly_breakdown[k] =
                       RoundTenths(Bilinear(m.monthly_values[tb.idx][ob.idx][k],
                                            m.monthly_values[tb.idx][ob.next][k],
                                            m.monthly_values[tb.next][ob.idx][k],
                                            m.monthly_values[tb.next][ob.next][k],
                                            tb, ob))

\* ------------------------------------------------- upstream failures: claims

\* C32: every failure of a provider's upstream call is recorded as a failure
\* in that provider's breaker (failure counter and failed_requests go up by
\* one), for both providers, so that after failure_threshold upstream
\* failures in a row the provider's circuit is OPEN.
C32_FailuresReachBreaker ==
    /\ [][ \A p \in DOMAIN pcall :
             pcall'[p].failures = pcall[p].failures + 1
             => /\ pbreaker'[p].failure_count = pbreaker[p].failure_count + 1
                /\ pbreaker'[p].failed_requests = pbreaker[p].failed_requests + 1 ]_vars
    /\ [](\A p \in DOMAIN pcall :
             pcall[p].failures >= FailureThreshold => pbreaker[p].state = OPEN)

\* ------------------------------------------------- age of cached data: claims

\* C37: a call served from the hot tier or from the warm store returns a
\* model whose provider fetch is less than the time to live back, and the hot
\* entry a warm hit writes expires no later than the row it was copied from.
C37_BoundedStaleness ==
    /\ [][ \A t \in DOMAIN req :
             (req[t].pc \in {"get_cached", "backfill"} /\ req'[t].pc = "returned")
             => origin'.call[t] < TtlTicks ]_vars
    /\ [][ \A t \in DOMAIN req :
             (req[t].pc = "backfill" /\ req'[t].pc = "returned")
             => stores'.hot[MakeCacheKey(req[t].coord)].age
                   >= stores.warm[req[t].model.latitude].age ]_vars

\* ------------------------------------------------ requested efficiency: claims

\* C40: the model a call returns has the requested panel_efficiency and area
\* and the values of a model generated from the same radiation data with the
\* requested area and efficiency, whether it came from the hot tier, from the
\* warm store or from a new fetch, and whatever the efficiency of the call
\* that filled the cache.
C40_RequestedEfficiency ==
    effcall.pc = "returned" =>
        LET out == effcall.returned.model
            fresh == GenerateForRequest(Radiation, effcall.area_m2, effcall.panel_efficiency)
            Same(v, w) == IF effcall.returned.scaled THEN v.num = w * v.den ELSE v = w
        IN  /\ out.panel_efficiency = effcall.panel_efficiency
            /\ out.area_m2 = effcall.area_m2
            /\ \A i \in DOMAIN fresh.monthly_values :
                  Same(out.monthly_values[i], fresh.monthly_values[i])
            /\ \A i \in DOMAIN fresh.annual_values :
                  Same(out.annual_values[i], fresh.annual_values[i])
            /\ Same(out.optimal_annual_kwh, fresh.optimal_annual_kwh)

====
